---- MODULE Spec2Model ----
(***************************************************************************)
(* Model of the metrics and insights engine of ai-content-pipeline         *)
(* (src/src/performance_analyzer.py, class PerformanceAnalyzer).           *)
(*                                                                         *)
(* The analyzer keeps no state between calls, so the state of the model is *)
(* one call in flight: the operation, its argument, whether it has         *)
(* returned, and the value it returned.  Init draws the call from bounded  *)
(* input sets; one action per operation applies the operation.  The time   *)
(* datetime.now() reads is an input of the operation that reads it.        *)
(* Around the call in flight the state holds what outlives a call: the     *)
(* tables of the store (src/src/data_storage.py), the number of requests   *)
(* sent to the narrative-generation service, and the calls the caller has  *)
(* already received an answer to.  What the service will answer to the    *)
(* requests it receives is fixed from the start: service[i] is its answer  *)
(* to request i.                                                           *)
(*                                                                         *)
(* Numbers.  Python computes the rates with binary floating point.  The    *)
(* model computes them as exact rationals [n |-> numerator,                *)
(* d |-> denominator] in lowest terms with d > 0, so that equality of two  *)
(* rates is equality of the records.  round(x, 2) is modelled as rounding  *)
(* to the nearest hundredth, ties to even, which is what Python does on    *)
(* the values the bounds below can produce.                                *)
(***************************************************************************)
EXTENDS Integers, Sequences, FiniteSets, TLC

VARIABLES op, arg, pc, result, db, external_calls, log, service

vars == <<op, arg, pc, result, db, external_calls, log, service>>

\* what the four computing operations of the analyzer never touch
outside == <<db, external_calls, log, service>>

(***************************************************************************)
(* Bounds of the input sets.                                               *)
(***************************************************************************)
MaxSent == 40
MaxCount == 3
MaxBounces == 1
MaxHistory == 4
MaxClock == 1
MaxRows == 3
MaxDate == 2
MaxRequests == 2
MaxCalls == 2
MaxRuns == 2

(***************************************************************************)
(* Exact rational arithmetic standing for Python's float arithmetic.       *)
(***************************************************************************)
Abs(x) == IF x < 0 THEN -x ELSE x

RECURSIVE GCD(_, _)
GCD(a, b) == IF b = 0 THEN a ELSE GCD(b, a % b)

\* the rational n/d (d # 0) in lowest terms with a positive denominator
Rat(n, d) ==
    LET g == GCD(Abs(n), Abs(d))
        s == IF d < 0 THEN -1 ELSE 1
    IN  [n |-> (s * n) \div g, d |-> (s * d) \div g]

Zero == [n |-> 0, d |-> 1]
FromInt(i) == [n |-> i, d |-> 1]

RAdd(x, y) == Rat(x.n * y.d + y.n * x.d, x.d * y.d)
RSub(x, y) == Rat(x.n * y.d - y.n * x.d, x.d * y.d)
RMul(x, y) == Rat(x.n * y.n, x.d * y.d)
RDiv(x, y) == Rat(x.n * y.d, x.d * y.n)
RLt(x, y) == x.n * y.d < y.n * x.d
RGt(x, y) == RLt(y, x)
RLe(x, y) == ~RLt(y, x)
RMax(x, y) == IF RLt(x, y) THEN y ELSE x
RMin(x, y) == IF RLt(y, x) THEN y ELSE x

\* round(x, 2): the nearest multiple of 1/100, a tie going to the even one
Round2(x) ==
    LET num == x.n * 100
        q == num \div x.d
        r == num % x.d
        up == (2 * r > x.d) \/ (2 * r = x.d /\ q % 2 = 1)
    IN  Rat(IF up THEN q + 1 ELSE q, 100)

\* dict.get(key, default)
Get(m, key, default) == IF key \in DOMAIN m THEN m[key] ELSE default

(***************************************************************************)
(* PerformanceAnalyzer._calculate_engagement_score                         *)
(***************************************************************************)
\* variant: the score is not clamped from above (min(100, ...) left out)
calculate_engagement_score_unclamped(opens, clicks, unsubscribes, sent) ==
    IF sent = 0
    THEN Zero
    ELSE LET open_score == RMul(Rat(opens, sent), FromInt(30))
             click_score == RMul(Rat(clicks, sent), FromInt(50))
             unsub_penalty == RMul(Rat(unsubscribes, sent), FromInt(20))
             raw == RMul(RSub(RAdd(open_score, click_score), unsub_penalty),
                         FromInt(100))
             score == RMax(Zero, raw)
         IN  Round2(score)

\* variant: the weighted sum is not multiplied by 100
calculate_engagement_score_unscaled(opens, clicks, unsubscribes, sent) ==
    IF sent = 0
    THEN Zero
    ELSE LET open_score == RMul(Rat(opens, sent), FromInt(30))
             click_score == RMul(Rat(clicks, sent), FromInt(50))
             unsub_penalty == RMul(Rat(unsubscribes, sent), FromInt(20))
             raw == RSub(RAdd(open_score, click_score), unsub_penalty)
             score == RMax(Zero, RMin(FromInt(100), raw))
         IN  Round2(score)

calculate_engagement_score(opens, clicks, unsubscribes, sent) ==
    IF sent = 0
    THEN Zero
    ELSE LET open_score == RMul(Rat(opens, sent), FromInt(30))
             click_score == RMul(Rat(clicks, sent), FromInt(50))
             unsub_penalty == RMul(Rat(unsubscribes, sent), FromInt(20))
             raw == RMul(RSub(RAdd(open_score, click_score), unsub_penalty),
                         FromInt(100))
             score == RMax(Zero, RMin(FromInt(100), raw))
         IN  Round2(score)

(***************************************************************************)
(* PerformanceAnalyzer.calculate_metrics                                   *)
(***************************************************************************)
\* variant: the rates over sent divide by max(sent, 1) instead of being
\* guarded by sent > 0
calculate_metrics_max1(raw_data) ==
    LET sent == Get(raw_data, "sent", 0)
        opens == Get(raw_data, "opens", 0)
        clicks == Get(raw_data, "clicks", 0)
        bounces == Get(raw_data, "bounces", 0)
        unsubscribes == Get(raw_data, "unsubscribes", 0)
        den == IF sent > 1 THEN sent ELSE 1
    IN  [contacts_sent |-> sent,
         opens |-> opens,
         clicks |-> clicks,
         bounces |-> bounces,
         unsubscribes |-> unsubscribes,
         open_rate |-> Rat(opens, den),
         click_rate |-> Rat(clicks, den),
         click_to_open_rate |-> IF opens > 0 THEN Rat(clicks, opens) ELSE Zero,
         bounce_rate |-> Rat(bounces, den),
         unsubscribe_rate |-> Rat(unsubscribes, den),
         engagement_score |->
             calculate_engagement_score(opens, clicks, unsubscribes, sent)]

\* variant: click_to_open_rate is taken over sent, like the other rates
calculate_metrics_cto_over_sent(raw_data) ==
    LET sent == Get(raw_data, "sent", 0)
        opens == Get(raw_data, "opens", 0)
        clicks == Get(raw_data, "clicks", 0)
        bounces == Get(raw_data, "bounces", 0)
        unsubscribes == Get(raw_data, "unsubscribes", 0)
    IN  [contacts_sent |-> sent,
         opens |-> opens,
         clicks |-> clicks,
         bounces |-> bounces,
         unsubscribes |-> unsubscribes,
         open_rate |-> IF sent > 0 THEN Rat(opens, sent) ELSE Zero,
         click_rate |-> IF sent > 0 THEN Rat(clicks, sent) ELSE Zero,
         click_to_open_rate |-> IF sent > 0 THEN Rat(clicks, sent) ELSE Zero,
         bounce_rate |-> IF sent > 0 THEN Rat(bounces, sent) ELSE Zero,
         unsubscribe_rate |-> IF sent > 0 THEN Rat(unsubscribes, sent) ELSE Zero,
         engagement_score |->
             calculate_engagement_score(opens, clicks, unsubscribes, sent)]

\* variant: an absent sent defaults to 1 instead of 0
calculate_metrics_sent_default1(raw_data) ==
    LET sent == Get(raw_data, "sent", 1)
        opens == Get(raw_data, "opens", 0)
        clicks == Get(raw_data, "clicks", 0)
        bounces == Get(raw_data, "bounces", 0)
        unsubscribes == Get(raw_data, "unsubscribes", 0)
    IN  [contacts_sent |-> sent,
         opens |-> opens,
         clicks |-> clicks,
         bounces |-> bounces,
         unsubscribes |-> unsubscribes,
         open_rate |-> IF sent > 0 THEN Rat(opens, sent) ELSE Zero,
         click_rate |-> IF sent > 0 THEN Rat(clicks, sent) ELSE Zero,
         click_to_open_rate |-> IF opens > 0 THEN Rat(clicks, opens) ELSE Zero,
         bounce_rate |-> IF sent > 0 THEN Rat(bounces, sent) ELSE Zero,
         unsubscribe_rate |-> IF sent > 0 THEN Rat(unsubscribes, sent) ELSE Zero,
         engagement_score |->
             calculate_engagement_score(opens, clicks, unsubscribes, sent)]

calculate_metrics(raw_data) ==
    LET sent == Get(raw_data, "sent", 0)
        opens == Get(raw_data, "opens", 0)
        clicks == Get(raw_data, "clicks", 0)
        bounces == Get(raw_data, "bounces", 0)
        unsubscribes == Get(raw_data, "unsubscribes", 0)
    IN  [contacts_sent |-> sent,
         opens |-> opens,
         clicks |-> clicks,
         bounces |-> bounces,
         unsubscribes |-> unsubscribes,
         open_rate |-> IF sent > 0 THEN Rat(opens, sent) ELSE Zero,
         click_rate |-> IF sent > 0 THEN Rat(clicks, sent) ELSE Zero,
         click_to_open_rate |-> IF opens > 0 THEN Rat(clicks, opens) ELSE Zero,
         bounce_rate |-> IF sent > 0 THEN Rat(bounces, sent) ELSE Zero,
         unsubscribe_rate |-> IF sent > 0 THEN Rat(unsubscribes, sent) ELSE Zero,
         engagement_score |->
             calculate_engagement_score(opens, clicks, unsubscribes, sent)]

(***************************************************************************)
(* Arguments of calculate_metrics: every mapping over a subset of the five *)
(* raw keys with non-negative counts, and the scenario of the              *)
(* specification.  Absent marks a key left out of the mapping.             *)
(***************************************************************************)
Absent == -1

RawKeys == {"sent", "opens", "clicks", "bounces", "unsubscribes"}

DictOf(rec) == [k \in {j \in DOMAIN rec : rec[j] # Absent} |-> rec[k]]

ScenarioRawCounts ==
    [sent |-> 100, opens |-> 30, clicks |-> 12, bounces |-> 2,
     unsubscribes |-> 1]

RawDataInputs ==
    { DictOf(rec) : rec \in [sent : (0 .. MaxSent) \cup {Absent},
                             opens : (0 .. MaxCount) \cup {Absent},
                             clicks : (0 .. MaxCount) \cup {Absent},
                             bounces : (0 .. MaxBounces) \cup {Absent},
                             unsubscribes : (0 .. MaxCount) \cup {Absent}] }
    \cup {ScenarioRawCounts}

(***************************************************************************)
(* PerformanceAnalyzer.compare_to_benchmarks                               *)
(***************************************************************************)
benchmarks ==
    [open_rate |-> Rat(21, 100),
     click_rate |-> Rat(10, 100),
     unsubscribe_rate |-> Rat(5, 1000)]

\* variant: difference_percent is the difference as a fraction of the
\* benchmark, not in percent
compare_to_benchmarks_fraction(metrics) ==
    [metrics |-> metrics,
     benchmarks |-> benchmarks,
     performance |->
        [metric \in DOMAIN benchmarks |->
            LET benchmark == benchmarks[metric]
                actual == Get(metrics, metric, Zero)
                diff == RSub(actual, benchmark)
                diff_percent ==
                    IF RGt(benchmark, Zero)
                    THEN RDiv(diff, benchmark)
                    ELSE Zero
                status ==
                    IF RGt(diff, Zero) THEN "above"
                    ELSE IF RLt(diff, Zero) THEN "below"
                    ELSE "at"
            IN  [actual |-> actual,
                 benchmark |-> benchmark,
                 difference |-> diff,
                 difference_percent |-> diff_percent,
                 status |-> status]]]

\* variant: a metric that equals its benchmark is classified 'above'
compare_to_benchmarks_at_is_above(metrics) ==
    [metrics |-> metrics,
     benchmarks |-> benchmarks,
     performance |->
        [metric \in DOMAIN benchmarks |->
            LET benchmark == benchmarks[metric]
                actual == Get(metrics, metric, Zero)
                diff == RSub(actual, benchmark)
                diff_percent ==
                    IF RGt(benchmark, Zero)
                    THEN RMul(RDiv(diff, benchmark), FromInt(100))
                    ELSE Zero
                status ==
                    IF RLe(Zero, diff) THEN "above"
                    ELSE IF RLt(diff, Zero) THEN "below"
                    ELSE "at"
            IN  [actual |-> actual,
                 benchmark |-> benchmark,
                 difference |-> diff,
                 difference_percent |-> diff_percent,
                 status |-> status]]]

compare_to_benchmarks(metrics) ==
    [metrics |-> metrics,
     benchmarks |-> benchmarks,
     performance |->
        [metric \in DOMAIN benchmarks |->
            LET benchmark == benchmarks[metric]
                actual == Get(metrics, metric, Zero)
                diff == RSub(actual, benchmark)
                diff_percent ==
                    IF RGt(benchmark, Zero)
                    THEN RMul(RDiv(diff, benchmark), FromInt(100))
                    ELSE Zero
                status ==
                    IF RGt(diff, Zero) THEN "above"
                    ELSE IF RLt(diff, Zero) THEN "below"
                    ELSE "at"
            IN  [actual |-> actual,
                 benchmark |-> benchmark,
                 difference |-> diff,
                 difference_percent |-> diff_percent,
                 status |-> status]]]

(***************************************************************************)
(* Arguments of compare_to_benchmarks: a mapping over a subset of the      *)
(* three benchmarked metrics, with rates below, at and above each          *)
(* benchmark.                                                              *)
(***************************************************************************)
OpenRateValues == { Rat(k, 100) : k \in {0, 15, 20, 21, 22, 26, 31, 35} }
ClickRateValues == { Rat(k, 100) : k \in {0, 5, 8, 10, 11, 12, 15} }
UnsubscribeRateValues == { Rat(k, 1000) : k \in {0, 2, 5, 8} }

NoRate == [n |-> Absent, d |-> 1]

RateDictOf(rec) == [k \in {j \in DOMAIN rec : rec[j] # NoRate} |-> rec[k]]

BenchmarkInputs ==
    { RateDictOf(rec) :
        rec \in [open_rate : OpenRateValues \cup {NoRate},
                 click_rate : ClickRateValues \cup {NoRate},
                 unsubscribe_rate : UnsubscribeRateValues \cup {NoRate}] }

(***************************************************************************)
(* PerformanceAnalyzer.identify_trends                                     *)
(***************************************************************************)
RECURSIVE SumRate(_, _)
\* sum(r.get(key, 0) for r in records)
SumRate(records, key) ==
    IF records = <<>>
    THEN Zero
    ELSE RAdd(Get(Head(records), key, Zero), SumRate(Tail(records), key))

\* variant: a record without persona is filed under 'Unknown', the name the
\* performance summary uses
PersonaOf_capitalised(data) == Get(data, "persona", "Unknown")

\* the persona under which identify_trends files a record
PersonaOf(data) == Get(data, "persona", "unknown")

RECURSIVE Reverse(_)
Reverse(seq) ==
    IF seq = <<>> THEN <<>> ELSE Append(Reverse(Tail(seq)), Head(seq))

\* variant: each group is put oldest first before it is split, for a
\* history that arrives newest first
by_persona_oldest_first(historical_data, persona) ==
    Reverse(SelectSeq(historical_data, LAMBDA data : PersonaOf(data) = persona))

\* by_persona[persona]: the records of the persona, in the order of the history
by_persona(historical_data, persona) ==
    SelectSeq(historical_data, LAMBDA data : PersonaOf(data) = persona)

\* the keys of by_persona
GroupedPersonas(historical_data) ==
    { PersonaOf(historical_data[i]) : i \in 1 .. Len(historical_data) }

\* records[:mid] and records[mid:]
FirstHalf(records) == SubSeq(records, 1, Len(records) \div 2)
SecondHalf(records) == SubSeq(records, (Len(records) \div 2) + 1, Len(records))

\* variant: a tie between the halves counts as 'improving'
PersonaTrend_tie_improving(records) ==
    LET n == FromInt(Len(records))
        mid == FromInt(Len(FirstHalf(records)))
        rest == FromInt(Len(SecondHalf(records)))
        avg_open == RDiv(SumRate(records, "open_rate"), n)
        avg_click == RDiv(SumRate(records, "click_rate"), n)
        first_half_open == RDiv(SumRate(FirstHalf(records), "open_rate"), mid)
        second_half_open == RDiv(SumRate(SecondHalf(records), "open_rate"), rest)
        first_half_click == RDiv(SumRate(FirstHalf(records), "click_rate"), mid)
        second_half_click == RDiv(SumRate(SecondHalf(records), "click_rate"), rest)
    IN  [campaigns_analyzed |-> Len(records),
         avg_open_rate |-> avg_open,
         avg_click_rate |-> avg_click,
         open_rate_trend |->
             IF RLe(first_half_open, second_half_open)
             THEN "improving" ELSE "declining",
         click_rate_trend |->
             IF RLe(first_half_click, second_half_click)
             THEN "improving" ELSE "declining",
         open_rate_change |-> RSub(second_half_open, first_half_open),
         click_rate_change |-> RSub(second_half_click, first_half_click)]

\* variant: the averages are taken over the second half only
PersonaTrend_avg_of_half(records) ==
    LET n == FromInt(Len(records))
        mid == FromInt(Len(FirstHalf(records)))
        rest == FromInt(Len(SecondHalf(records)))
        avg_open == RDiv(SumRate(records, "open_rate"), n)
        avg_click == RDiv(SumRate(records, "click_rate"), n)
        first_half_open == RDiv(SumRate(FirstHalf(records), "open_rate"), mid)
        second_half_open == RDiv(SumRate(SecondHalf(records), "open_rate"), rest)
        first_half_click == RDiv(SumRate(FirstHalf(records), "click_rate"), mid)
        second_half_click == RDiv(SumRate(SecondHalf(records), "click_rate"), rest)
    IN  [campaigns_analyzed |-> Len(records),
         avg_open_rate |-> second_half_open,
         avg_click_rate |-> second_half_click,
         open_rate_trend |->
             IF RGt(second_half_open, first_half_open)
             THEN "improving" ELSE "declining",
         click_rate_trend |->
             IF RGt(second_half_click, first_half_click)
             THEN "improving" ELSE "declining",
         open_rate_change |-> RSub(second_half_open, first_half_open),
         click_rate_change |-> RSub(second_half_click, first_half_click)]

\* the entry trends[persona] built from the records of one persona
PersonaTrend(records) ==
    LET n == FromInt(Len(records))
        mid == FromInt(Len(FirstHalf(records)))
        rest == FromInt(Len(SecondHalf(records)))
        avg_open == RDiv(SumRate(records, "open_rate"), n)
        avg_click == RDiv(SumRate(records, "click_rate"), n)
        first_half_open == RDiv(SumRate(FirstHalf(records), "open_rate"), mid)
        second_half_open == RDiv(SumRate(SecondHalf(records), "open_rate"), rest)
        first_half_click == RDiv(SumRate(FirstHalf(records), "click_rate"), mid)
        second_half_click == RDiv(SumRate(SecondHalf(records), "click_rate"), rest)
    IN  [campaigns_analyzed |-> Len(records),
         avg_open_rate |-> avg_open,
         avg_click_rate |-> avg_click,
         open_rate_trend |->
             IF RGt(second_half_open, first_half_open)
             THEN "improving" ELSE "declining",
         click_rate_trend |->
             IF RGt(second_half_click, first_half_click)
             THEN "improving" ELSE "declining",
         open_rate_change |-> RSub(second_half_open, first_half_open),
         click_rate_change |-> RSub(second_half_click, first_half_click)]

\* variant: only empty groups are skipped
AnalysedPersonas_min1(historical_data) ==
    { persona \in GroupedPersonas(historical_data) :
        ~(Len(by_persona(historical_data, persona)) < 1) }

\* variant: groups of two records are skipped as well
AnalysedPersonas_min3(historical_data) ==
    { persona \in GroupedPersonas(historical_data) :
        ~(Len(by_persona(historical_data, persona)) <= 2) }

\* the personas whose group is not skipped by `if len(records) < 2: continue`
AnalysedPersonas(historical_data) ==
    { persona \in GroupedPersonas(historical_data) :
        ~(Len(by_persona(historical_data, persona)) < 2) }

\* variant: a history of two records is insufficient as well
identify_trends_min3(historical_data, now) ==
    IF Len(historical_data) <= 2
    THEN [status |-> "insufficient_data",
          message |-> "Need at least 2 campaigns for trend analysis"]
    ELSE IF \E persona \in AnalysedPersonas(historical_data) :
                \/ Len(FirstHalf(by_persona(historical_data, persona))) = 0
                \/ Len(SecondHalf(by_persona(historical_data, persona))) = 0
    THEN [raised |-> "ZeroDivisionError"]
    ELSE LET trends ==
                 [persona \in AnalysedPersonas(historical_data) |->
                      PersonaTrend(by_persona(historical_data, persona))]
         IN  [status |-> "success",
              personas_analyzed |-> Cardinality(DOMAIN trends),
              trends |-> trends,
              analyzed_at |-> now]

\* variant: every entry of trends carries the time of the analysis as well
identify_trends_stamped_entries(historical_data, now) ==
    IF Len(historical_data) < 2
    THEN [status |-> "insufficient_data",
          message |-> "Need at least 2 campaigns for trend analysis"]
    ELSE LET trends ==
                 [persona \in AnalysedPersonas(historical_data) |->
                      [trend |-> PersonaTrend(by_persona(historical_data,
                                                         persona)),
                       analyzed_at |-> now]]
         IN  [status |-> "success",
              personas_analyzed |-> Cardinality(DOMAIN trends),
              trends |-> trends,
              analyzed_at |-> now]

identify_trends(historical_data, now) ==
    IF Len(historical_data) < 2
    THEN [status |-> "insufficient_data",
          message |-> "Need at least 2 campaigns for trend analysis"]
    ELSE IF \E persona \in AnalysedPersonas(historical_data) :
                \/ Len(FirstHalf(by_persona(historical_data, persona))) = 0
                \/ Len(SecondHalf(by_persona(historical_data, persona))) = 0
    THEN [raised |-> "ZeroDivisionError"]
    ELSE LET trends ==
                 [persona \in AnalysedPersonas(historical_data) |->
                      PersonaTrend(by_persona(historical_data, persona))]
         IN  [status |-> "success",
              personas_analyzed |-> Cardinality(DOMAIN trends),
              trends |-> trends,
              analyzed_at |-> now]

(***************************************************************************)
(* Arguments of identify_trends: every history of at most MaxHistory       *)
(* records.  A record carries a persona, an open rate and a click rate;    *)
(* two more records lack the persona, or both rates.                       *)
(***************************************************************************)
Personas == {"founders", "creatives"}

HistoryRates == {Rat(1, 10), Rat(2, 10)}

HistoryRecords ==
    [persona : Personas, open_rate : HistoryRates, click_rate : HistoryRates]
    \cup { [open_rate |-> Rat(3, 10), click_rate |-> Rat(1, 10)],
           [persona |-> "founders"] }

HistoryInputs ==
    UNION { [1 .. len -> HistoryRecords] : len \in 0 .. MaxHistory }

(***************************************************************************)
(* PerformanceAnalyzer.suggest_optimization.  A suggestion is written as   *)
(* the sentence its text opens with.                                       *)
(***************************************************************************)
SubjectLine == "Subject Line: Open rate is below 20%."
CallToAction == "Call-to-Action: Click rate is low."
EmailDesign == "Email Design: Click-to-open rate is under 30%."
SendTime == "Send Time: Good opens but low clicks suggests timing issues."
Segmentation == "Segmentation: Consider further segmenting your audience"
StrongPerformance == "Strong Performance!"
WithinNormalRanges == "Performance is within normal ranges."

\* variant: the last rule asks for a high open rate or a high click rate
suggest_optimization_strong_either(metrics, content_context) ==
    LET open_rate == Get(metrics, "open_rate", Zero)
        click_rate == Get(metrics, "click_rate", Zero)
        cto_rate == Get(metrics, "click_to_open_rate", Zero)
        suggestions ==
            (IF RLt(open_rate, Rat(20, 100)) THEN <<SubjectLine>> ELSE <<>>)
            \o (IF RLt(click_rate, Rat(8, 100)) THEN <<CallToAction>> ELSE <<>>)
            \o (IF RLt(cto_rate, Rat(30, 100)) THEN <<EmailDesign>> ELSE <<>>)
            \o (IF RGt(open_rate, Rat(25, 100)) /\ RLt(click_rate, Rat(10, 100))
                THEN <<SendTime>> ELSE <<>>)
            \o (IF RLt(open_rate, Rat(22, 100)) THEN <<Segmentation>> ELSE <<>>)
            \o (IF RGt(open_rate, Rat(30, 100)) \/ RGt(click_rate, Rat(12, 100))
                THEN <<StrongPerformance>> ELSE <<>>)
    IN  IF suggestions # <<>> THEN suggestions ELSE <<WithinNormalRanges>>

\* variant: the rules form one if / elif chain, so that the first rule that
\* matches is the only one that speaks
suggest_optimization_first_match(metrics, content_context) ==
    LET open_rate == Get(metrics, "open_rate", Zero)
        click_rate == Get(metrics, "click_rate", Zero)
        cto_rate == Get(metrics, "click_to_open_rate", Zero)
    IN  IF RLt(open_rate, Rat(20, 100)) THEN <<SubjectLine>>
        ELSE IF RLt(click_rate, Rat(8, 100)) THEN <<CallToAction>>
        ELSE IF RLt(cto_rate, Rat(30, 100)) THEN <<EmailDesign>>
        ELSE IF RGt(open_rate, Rat(25, 100)) /\ RLt(click_rate, Rat(10, 100))
             THEN <<SendTime>>
        ELSE IF RLt(open_rate, Rat(22, 100)) THEN <<Segmentation>>
        ELSE IF RGt(open_rate, Rat(30, 100)) /\ RGt(click_rate, Rat(12, 100))
             THEN <<StrongPerformance>>
        ELSE <<WithinNormalRanges>>

\* variant: a click-to-open rate that is not given is not judged
suggest_optimization_cto_unjudged(metrics, content_context) ==
    LET open_rate == Get(metrics, "open_rate", Zero)
        click_rate == Get(metrics, "click_rate", Zero)
        cto_rate == Get(metrics, "click_to_open_rate", Rat(30, 100))
        suggestions ==
            (IF RLt(open_rate, Rat(20, 100)) THEN <<SubjectLine>> ELSE <<>>)
            \o (IF RLt(click_rate, Rat(8, 100)) THEN <<CallToAction>> ELSE <<>>)
            \o (IF RLt(cto_rate, Rat(30, 100)) THEN <<EmailDesign>> ELSE <<>>)
            \o (IF RGt(open_rate, Rat(25, 100)) /\ RLt(click_rate, Rat(10, 100))
                THEN <<SendTime>> ELSE <<>>)
            \o (IF RLt(open_rate, Rat(22, 100)) THEN <<Segmentation>> ELSE <<>>)
            \o (IF RGt(open_rate, Rat(30, 100)) /\ RGt(click_rate, Rat(12, 100))
                THEN <<StrongPerformance>> ELSE <<>>)
    IN  IF suggestions # <<>> THEN suggestions ELSE <<WithinNormalRanges>>

suggest_optimization(metrics, content_context) ==
    LET open_rate == Get(metrics, "open_rate", Zero)
        click_rate == Get(metrics, "click_rate", Zero)
        cto_rate == Get(metrics, "click_to_open_rate", Zero)
        suggestions ==
            (IF RLt(open_rate, Rat(20, 100)) THEN <<SubjectLine>> ELSE <<>>)
            \o (IF RLt(click_rate, Rat(8, 100)) THEN <<CallToAction>> ELSE <<>>)
            \o (IF RLt(cto_rate, Rat(30, 100)) THEN <<EmailDesign>> ELSE <<>>)
            \o (IF RGt(open_rate, Rat(25, 100)) /\ RLt(click_rate, Rat(10, 100))
                THEN <<SendTime>> ELSE <<>>)
            \o (IF RLt(open_rate, Rat(22, 100)) THEN <<Segmentation>> ELSE <<>>)
            \o (IF RGt(open_rate, Rat(30, 100)) /\ RGt(click_rate, Rat(12, 100))
                THEN <<StrongPerformance>> ELSE <<>>)
    IN  IF suggestions # <<>> THEN suggestions ELSE <<WithinNormalRanges>>

\* rates on and around the thresholds of the rules, each possibly absent
ClickToOpenRateValues ==
    { Rat(k, 100) : k \in {0, 20, 30, 40} } \cup {Rat(3, 7)}

SuggestMetricsInputs ==
    { RateDictOf(rec) :
        rec \in [open_rate : OpenRateValues \cup {Rat(25, 100), Rat(30, 100)}
                                 \cup {NoRate},
                 click_rate : ClickRateValues \cup {NoRate},
                 click_to_open_rate : ClickToOpenRateValues \cup {NoRate}] }

ContentContexts == { [title |-> "AI in Marketing"], [topic |-> "automation"] }

(***************************************************************************)
(* PerformanceAnalyzer.generate_performance_insights.  A value that comes  *)
(* out of json.loads carries its Python type, which the pipeline tests     *)
(* with isinstance.  An answer of the service is an error raised by        *)
(* client.chat.completions.create, or a message whose content is None,     *)
(* text that is not JSON, a JSON array or a JSON object.                   *)
(***************************************************************************)
JStr(s) == [str |-> s]
JList(l) == [list |-> l]
JInt(i) == [int |-> i]

\* m with m[key] = value, as the assignment m[key] = value leaves a dict
SetItem(m, key, value) ==
    [k \in DOMAIN m \cup {key} |-> IF k = key THEN value ELSE m[k]]

\* datetime.isoformat() of the time t
isoformat(t) == "2026-01-01T00:00:0" \o ToString(t)

APIError == [kind |-> "api_error"]
NoneContent == [kind |-> "none"]
NotJson == [kind |-> "text"]
JsonArray == [kind |-> "array", array |-> <<JStr("Opens are strong")>>]
JsonObject(mapping) == [kind |-> "object", object |-> mapping]

\* json.loads(response.choices[0].message.content)
json_loads(response) ==
    IF response.kind = "none" THEN [raised |-> "TypeError"]
    ELSE IF response.kind = "text" THEN [raised |-> "JSONDecodeError"]
    ELSE IF response.kind = "array"
    THEN [returned |-> JList(response.array), is_dict |-> FALSE]
    ELSE [returned |-> response.object, is_dict |-> TRUE]

\* variant: a request that fails is sent a second time
generate_performance_insights_retry(performance_data, campaign_context, answers, now) ==
    LET Attempt(response) ==
            IF response.kind = "api_error"
            THEN [raised |-> "APIError"]
            ELSE LET loaded == json_loads(response)
                 IN  IF "raised" \in DOMAIN loaded
                     THEN loaded
                     ELSE IF ~loaded.is_dict
                     THEN [raised |-> "TypeError"]
                     ELSE [returned |->
                              SetItem(SetItem(SetItem(loaded.returned,
                                  "generated_at", JStr(isoformat(now))),
                                  "campaign",
                                  JStr(Get(campaign_context, "title", "Unknown"))),
                                  "analyzed_segments",
                                  JInt(Len(performance_data)))]
        first == Attempt(answers[1])
    IN  IF "raised" \in DOMAIN first /\ Len(answers) >= 2
        THEN [k \in DOMAIN Attempt(answers[2]) \cup {"calls"} |->
                 IF k = "calls" THEN 2 ELSE Attempt(answers[2])[k]]
        ELSE [k \in DOMAIN first \cup {"calls"} |->
                 IF k = "calls" THEN 1 ELSE first[k]]

\* variant: the keys the response already has are left as the response
\* gave them
generate_performance_insights_setdefault(performance_data, campaign_context, answers, now) ==
    LET response == answers[1]
        SetDefault(m, key, value) ==
            IF key \in DOMAIN m THEN m ELSE SetItem(m, key, value)
    IN  IF response.kind = "api_error"
        THEN [raised |-> "APIError", calls |-> 1]
        ELSE LET loaded == json_loads(response)
             IN  IF "raised" \in DOMAIN loaded
                 THEN [raised |-> loaded.raised, calls |-> 1]
                 ELSE IF ~loaded.is_dict
                 THEN [raised |-> "TypeError", calls |-> 1]
                 ELSE [returned |->
                          SetDefault(SetDefault(SetDefault(loaded.returned,
                              "generated_at", JStr(isoformat(now))),
                              "campaign",
                              JStr(Get(campaign_context, "title", "Unknown"))),
                              "analyzed_segments",
                              JInt(Len(performance_data))),
                       calls |-> 1]

\* answers[i] is what the service gives to request i of this invocation.
\* The outcome says what was returned or raised and how many requests
\* were sent.
generate_performance_insights(performance_data, campaign_context, answers, now) ==
    LET response == answers[1]
    IN  IF response.kind = "api_error"
        THEN [raised |-> "APIError", calls |-> 1]
        ELSE LET loaded == json_loads(response)
             IN  IF "raised" \in DOMAIN loaded
                 THEN [raised |-> loaded.raised, calls |-> 1]
                 ELSE IF ~loaded.is_dict
                 THEN \* insights['generated_at'] = ... on a list
                      [raised |-> "TypeError", calls |-> 1]
                 ELSE [returned |->
                          SetItem(SetItem(SetItem(loaded.returned,
                              "generated_at", JStr(isoformat(now))),
                              "campaign",
                              JStr(Get(campaign_context, "title", "Unknown"))),
                              "analyzed_segments",
                              JInt(Len(performance_data))),
                       calls |-> 1]

\* the performance of one persona, as the pipeline hands it on
LowPerformance ==
    [persona |-> "founders", open_rate |-> Rat(15, 100),
     click_rate |-> Rat(5, 100), click_to_open_rate |-> Rat(20, 100)]

StrongPerformancePerf ==
    [persona |-> "creatives", open_rate |-> Rat(35, 100),
     click_rate |-> Rat(15, 100), click_to_open_rate |-> Rat(3, 7)]

PerformanceDataInputs ==
    { <<>>, <<LowPerformance>>, <<LowPerformance, StrongPerformancePerf>> }

\* JSON objects the service may answer with: the keys it was asked for, keys
\* that the analyzer sets itself, and no key at all
AskedForAnswer ==
    JsonObject([key_insights |-> JStr("Opens are strong"),
                best_segment |-> JStr("founders"),
                recommendations |-> JList(<<"Test subject lines">>)])

OwnKeysAnswer ==
    JsonObject([key_insights |-> JList(<<"Opens are strong", "Clicks lag">>),
                generated_at |-> JStr("yesterday"),
                campaign |-> JStr("Another campaign"),
                analyzed_segments |-> JInt(99)])

EmptyAnswer == JsonObject([key \in {} |-> JStr(key)])

ServiceAnswers ==
    {APIError, NoneContent, NotJson, JsonArray, AskedForAnswer,
     OwnKeysAnswer, EmptyAnswer}

\* what the service answers to the requests of one run
ServiceScripts == [1 .. MaxRequests -> ServiceAnswers]

(***************************************************************************)
(* The store: DataStorage._init_database and get_historical_performance.   *)
(* A table is the sequence of its rows in the order of insertion.          *)
(***************************************************************************)
EmptyDb ==
    [content |-> <<>>,
     newsletters |-> <<>>,
     campaigns |-> <<>>,
     campaign_performance |-> <<>>,
     contacts |-> <<>>,
     performance_insights |-> <<>>]

\* the rows of campaign_performance that the two JOINs keep
JoinedPerformance(store) ==
    SelectSeq(store.campaign_performance,
              LAMBDA cp :
                  \E i \in 1 .. Len(store.campaigns) :
                      /\ store.campaigns[i].id = cp.campaign_id
                      /\ \E j \in 1 .. Len(store.content) :
                             store.content[j].id = store.campaigns[i].content_id)

\* cp.*, c.send_date of one joined row
HistoryRow(store, cp) ==
    LET c == store.campaigns[CHOOSE i \in 1 .. Len(store.campaigns) :
                                 store.campaigns[i].id = cp.campaign_id]
    IN  [campaign_id |-> cp.campaign_id,
         persona |-> cp.persona,
         open_rate |-> cp.open_rate,
         click_rate |-> cp.click_rate,
         send_date |-> c.send_date]

\* ORDER BY c.send_date DESC LIMIT ?: the lists the query can return.  Rows
\* of one send_date come in an order the query does not fix.
get_historical_performance(store, limit) ==
    LET joined == JoinedPerformance(store)
        n == Len(joined)
        k == IF limit < n THEN limit ELSE n
        date(i) == HistoryRow(store, joined[i]).send_date
    IN  { [i \in 1 .. k |-> HistoryRow(store, joined[pick[i]])] :
            pick \in { f \in [1 .. k -> 1 .. n] :
                         /\ \A i, j \in 1 .. k : i < j => f[i] # f[j]
                         /\ \A i, j \in 1 .. k :
                                i < j => date(f[i]) >= date(f[j])
                         /\ \A i \in 1 .. k : \A r \in 1 .. n :
                                (\A j \in 1 .. k : f[j] # r)
                                    => date(f[i]) >= date(r) } }

\* the value of a column that holds NULL (None in the program)
Null == "NULL"

\* the row of contacts a call of save_contact writes (created_at and
\* updated_at are left out)
ContactRow(id, contact) ==
    [id |-> id,
     email |-> contact.email,
     first_name |-> contact.first_name,
     last_name |-> contact.last_name,
     persona |-> contact.persona,
     company |-> contact.company,
     hubspot_contact_id |-> contact.hubspot_contact_id]

\* SELECT id FROM contacts WHERE email = ?: the positions of the rows found
ExistingContacts(store, email) ==
    { i \in 1 .. Len(store.contacts) : store.contacts[i].email = email }

\* variant: a contact that is already stored is left as it is
save_contact_keep_existing(store, contact) ==
    LET existing == ExistingContacts(store, contact.email)
    IN  IF existing # {}
        THEN [db |-> store,
              returned |-> store.contacts[CHOOSE i \in existing : TRUE].id]
        ELSE [db |-> [store EXCEPT !.contacts =
                         Append(@, ContactRow(Len(@) + 1, contact))],
              returned |-> Len(store.contacts) + 1]

\* DataStorage.save_contact: the store it leaves and the id it returns
save_contact(store, contact) ==
    LET existing == ExistingContacts(store, contact.email)
    IN  IF existing # {}
        THEN [db |-> [store EXCEPT !.contacts =
                         [i \in 1 .. Len(@) |->
                             IF i \in existing
                             THEN ContactRow(@[i].id, contact)
                             ELSE @[i]]],
              returned |-> store.contacts[CHOOSE i \in existing : TRUE].id]
        ELSE [db |-> [store EXCEPT !.contacts =
                         Append(@, ContactRow(Len(@) + 1, contact))],
              returned |-> Len(store.contacts) + 1]

\* contacts as _create_test_contacts and a later correction would save them
ContactInputs ==
    { [email |-> e, first_name |-> v.first_name, last_name |-> v.last_name,
       persona |-> v.persona, company |-> v.company,
       hubspot_contact_id |-> v.hubspot_contact_id] :
        e \in {"sarah.founder@techstartup.com", "david.manager@studio.com"},
        v \in { [first_name |-> "Sarah", last_name |-> "Chen",
                 persona |-> "founders", company |-> "TechStart Inc",
                 hubspot_contact_id |-> "101"],
                [first_name |-> "David", last_name |-> "Anderson",
                 persona |-> "operations", company |-> Null,
                 hubspot_contact_id |-> Null] } }

\* DataStorage.save_insight: the store with one more row of
\* performance_insights, whose id is the next the table gives
save_insight(store, campaign_id, insight_text, recommendations) ==
    [store EXCEPT !.performance_insights =
        Append(@, [id |-> Len(@) + 1,
                   campaign_id |-> campaign_id,
                   insight_text |-> insight_text,
                   recommendations |-> recommendations])]

(***************************************************************************)
(* ContentPipeline._generate_insights.  A dict the step walks through is   *)
(* the sequence of its entries in the order of insertion.                  *)
(***************************************************************************)
RECURSIVE Join(_, _)
\* separator.join(items)
Join(items, separator) ==
    IF items = <<>> THEN ""
    ELSE IF Len(items) = 1 THEN items[1]
    ELSE items[1] \o separator \o Join(Tail(items), separator)

\* json.dumps of a list of strings or of a number
json_dumps(v) ==
    IF "list" \in DOMAIN v
    THEN "[" \o Join([i \in 1 .. Len(v.list) |-> "\"" \o v.list[i] \o "\""],
                     ", ") \o "]"
    ELSE IF "int" \in DOMAIN v THEN ToString(v.int)
    ELSE "\"" \o v.str \o "\""

\* insight_text: key_insights as a string
InsightText(insights) ==
    LET v == Get(insights, "key_insights", JStr(""))
    IN  IF "list" \in DOMAIN v THEN Join(v.list, "\n")
        ELSE IF "str" \in DOMAIN v THEN v.str
        ELSE ToString(v.int)

\* recommendations as a JSON string
RecommendationsText(insights) ==
    LET v == Get(insights, "recommendations", JList(<<>>))
    IN  IF "str" \in DOMAIN v THEN v.str ELSE json_dumps(v)

RECURSIVE SaveInsights(_, _, _)
\* the loop over content_results.get('newsletter_ids', {}).items()
SaveInsights(store, newsletter_ids, insights) ==
    IF newsletter_ids = <<>> THEN store
    ELSE SaveInsights(save_insight(store, Head(newsletter_ids).id,
                                   InsightText(insights),
                                   RecommendationsText(insights)),
                      Tail(newsletter_ids), insights)

RECURSIVE WithSuggestions(_, _, _)
\* the loop over performance_results['by_persona'].items()
WithSuggestions(insights, by_persona_items, campaign_context) ==
    IF by_persona_items = <<>> THEN insights
    ELSE WithSuggestions(
             SetItem(insights, Head(by_persona_items).persona \o "_suggestions",
                     JList(suggest_optimization(Head(by_persona_items).perf,
                                                campaign_context))),
             Tail(by_persona_items), campaign_context)

\* campaign_context of the step
CampaignContext(content_results) ==
    [title |-> content_results.blog.title,
     topic |-> Get(content_results.blog, "topic", "Unknown"),
     word_count |-> content_results.blog.word_count]

\* variant: a failed request is caught inside the step, which returns the
\* error as its insights
generate_insights_caught(performance_results, content_results, answers, now, store) ==
    LET items == performance_results.by_persona
        performance_list == [i \in 1 .. Len(items) |-> items[i].perf]
        campaign_context == CampaignContext(content_results)
        outcome == generate_performance_insights(performance_list,
                       campaign_context, answers, now)
    IN  IF "raised" \in DOMAIN outcome
        THEN [returned |-> [error |-> JStr(outcome.raised)],
              calls |-> outcome.calls, db |-> store]
        ELSE [returned |-> WithSuggestions(outcome.returned, items,
                                           campaign_context),
              calls |-> outcome.calls,
              db |-> SaveInsights(store,
                                  Get(content_results, "newsletter_ids", <<>>),
                                  outcome.returned)]

\* the step on a store: what it returns or raises, the requests it sent and
\* the store it leaves
generate_insights(performance_results, content_results, answers, now, store) ==
    LET items == performance_results.by_persona
        performance_list == [i \in 1 .. Len(items) |-> items[i].perf]
        campaign_context == CampaignContext(content_results)
        outcome == generate_performance_insights(performance_list,
                       campaign_context, answers, now)
    IN  IF "raised" \in DOMAIN outcome
        THEN [raised |-> outcome.raised, calls |-> outcome.calls, db |-> store]
        ELSE [returned |-> WithSuggestions(outcome.returned, items,
                                           campaign_context),
              calls |-> outcome.calls,
              db |-> SaveInsights(store,
                                  Get(content_results, "newsletter_ids", <<>>),
                                  outcome.returned)]

PerformanceResultsInputs ==
    { [by_persona |-> items] :
        items \in { <<>>,
                    <<[persona |-> "founders", perf |-> LowPerformance]>>,
                    <<[persona |-> "founders", perf |-> LowPerformance],
                      [persona |-> "creatives",
                       perf |-> StrongPerformancePerf]>> } }

BlogWithTopic ==
    [title |-> "AI in Marketing", topic |-> "automation", word_count |-> 800]

BlogWithoutTopic == [title |-> "AI in Marketing", word_count |-> 800]

ContentResultsInputs ==
    { [content_id |-> 1, blog |-> BlogWithTopic,
       newsletter_ids |-> <<[persona |-> "founders", id |-> 1],
                            [persona |-> "creatives", id |-> 2]>>],
      [content_id |-> 1, blog |-> BlogWithoutTopic,
       newsletter_ids |-> <<[persona |-> "founders", id |-> 1]>>],
      [content_id |-> 1, blog |-> BlogWithTopic] }

(***************************************************************************)
(* The steps of ContentPipeline.run_full_pipeline before the insight step. *)
(* A step is an operator from the store it finds to the store it leaves    *)
(* and the value it returns or the error it raises.  Texts the language    *)
(* model writes are one fixed text per request; files and printing are     *)
(* left out.                                                               *)
(***************************************************************************)
\* the keys of Config.PERSONAS and of the segments, in their order
PersonaKeys == <<"founders", "creatives", "operations">>

\* the entry of an ordered dict (a sequence of entries with a persona)
Lookup(items, persona) ==
    items[CHOOSE i \in 1 .. Len(items) : items[i].persona = persona]

HasKey(items, persona) ==
    \E i \in 1 .. Len(items) : items[i].persona = persona

\* DataStorage.save_content
save_content(store, topic, blog) ==
    [db |-> [store EXCEPT !.content =
                Append(@, [id |-> Len(@) + 1,
                           topic |-> topic,
                           blog_title |-> blog.title,
                           word_count |-> blog.word_count])],
     returned |-> Len(store.content) + 1]

\* DataStorage.save_newsletter
save_newsletter(store, content_id, persona, newsletter) ==
    [db |-> [store EXCEPT !.newsletters =
                Append(@, [id |-> Len(@) + 1,
                           content_id |-> content_id,
                           persona |-> persona,
                           subject_line |-> newsletter.subject_line])],
     returned |-> Len(store.newsletters) + 1]

RECURSIVE SaveNewsletters(_, _, _, _)
\* the loop over newsletters.items(): the store and newsletter_ids
SaveNewsletters(store, content_id, newsletters, newsletter_ids) ==
    IF newsletters = <<>>
    THEN [db |-> store, newsletter_ids |-> newsletter_ids]
    ELSE LET saved == save_newsletter(store, content_id,
                                      Head(newsletters).persona,
                                      Head(newsletters).newsletter)
         IN  SaveNewsletters(saved.db, content_id, Tail(newsletters),
                             Append(newsletter_ids,
                                    [persona |-> Head(newsletters).persona,
                                     id |-> saved.returned]))

\* ContentPipeline._generate_content; outcome says what happens to the
\* step: it succeeds ("ok"), the request for the blog fails, a request for
\* a newsletter fails, or the export fails
generate_content(topic, outcome, store) ==
    IF outcome = "blog_fails"
    THEN [raised |-> "APIError", db |-> store]
    ELSE LET \* ContentGenerator.generate_blog_post
             blog == [title |-> "Guide: " \o topic,
                      outline |-> "1. Why 2. How 3. Next",
                      content |-> "All about " \o topic,
                      word_count |-> 3]
             content == save_content(store, topic, blog)
         IN  IF outcome = "newsletters_fail"
             THEN [raised |-> "APIError", db |-> content.db]
             ELSE LET \* ContentGenerator.generate_newsletter_variations
                      newsletters ==
                          [i \in 1 .. Len(PersonaKeys) |->
                              [persona |-> PersonaKeys[i],
                               newsletter |->
                                   [subject_line |->
                                        PersonaKeys[i] \o ": " \o blog.title,
                                    body |-> "Read the full blog",
                                    word_count |-> 4,
                                    persona |-> PersonaKeys[i]]]]
                      saved == SaveNewsletters(content.db, content.returned,
                                               newsletters, <<>>)
                  IN  IF outcome = "export_fails"
                      THEN [raised |-> "OSError", db |-> saved.db]
                      ELSE [returned |->
                               [content_id |-> content.returned,
                                blog |-> blog,
                                newsletters |-> newsletters,
                                newsletter_ids |-> saved.newsletter_ids],
                            db |-> saved.db]

\* the contacts of _create_test_contacts
TestContacts ==
    LET Contact(email, first_name, last_name, persona, company) ==
            [email |-> email, first_name |-> first_name,
             last_name |-> last_name, persona |-> persona,
             company |-> company]
    IN  <<Contact("john.founder@agency.com", "John", "Smith", "founders",
                  "Creative Agency Co"),
          Contact("sarah.ceo@studio.com", "Sarah", "Johnson", "founders",
                  "Studio Labs"),
          Contact("mike.owner@design.com", "Mike", "Williams", "founders",
                  "Design House"),
          Contact("emma.designer@agency.com", "Emma", "Davis", "creatives",
                  "Creative Agency Co"),
          Contact("alex.creative@studio.com", "Alex", "Brown", "creatives",
                  "Studio Labs"),
          Contact("chris.artist@design.com", "Chris", "Martinez", "creatives",
                  "Design House"),
          Contact("lisa.ops@agency.com", "Lisa", "Wilson", "operations",
                  "Creative Agency Co"),
          Contact("david.manager@studio.com", "David", "Anderson",
                  "operations", "Studio Labs"),
          Contact("jennifer.ops@design.com", "Jennifer", "Taylor",
                  "operations", "Design House")>>

RECURSIVE SaveTestContacts(_, _, _)
\* the loop of _create_test_contacts: the store and the contacts, each with
\* the contact_id the CRM gives it
SaveTestContacts(store, contacts, done) ==
    IF contacts = <<>>
    THEN [db |-> store, returned |-> done]
    ELSE LET contact == Head(contacts)
             contact_id == "hs:" \o contact.email
             saved == save_contact(store,
                          [email |-> contact.email,
                           first_name |-> contact.first_name,
                           last_name |-> contact.last_name,
                           persona |-> contact.persona,
                           company |-> contact.company,
                           hubspot_contact_id |-> contact_id])
         IN  SaveTestContacts(saved.db, Tail(contacts),
                 Append(done, [email |-> contact.email,
                               first_name |-> contact.first_name,
                               last_name |-> contact.last_name,
                               persona |-> contact.persona,
                               company |-> contact.company,
                               contact_id |-> contact_id]))

\* str.lower() on the names of personas
lower(text) ==
    CASE text = "Founders" -> "founders"
      [] text = "Creatives" -> "creatives"
      [] text = "Operations" -> "operations"
      [] OTHER -> text

\* CRMIntegration.segment_contacts_by_persona
segment_contacts_by_persona(contacts) ==
    [i \in 1 .. Len(PersonaKeys) |->
        [persona |-> PersonaKeys[i],
         contacts |-> SelectSeq(contacts,
                          LAMBDA contact :
                              lower(Get(contact, "persona", ""))
                                  = PersonaKeys[i])]]

\* CRMIntegration.send_email_to_contacts
send_email_to_contacts(contacts, campaign_name, now) ==
    [campaign_name |-> campaign_name,
     campaign_id |-> "camp_" \o ToString(now),
     contacts_sent |-> Len(contacts),
     status |-> "sent"]

\* DataStorage.create_campaign; send_date is CURRENT_TIMESTAMP
create_campaign(store, content_id, campaign_name, hubspot_campaign_id, now) ==
    [db |-> [store EXCEPT !.campaigns =
                Append(@, [id |-> Len(@) + 1,
                           content_id |-> content_id,
                           campaign_name |-> campaign_name,
                           hubspot_campaign_id |-> hubspot_campaign_id,
                           send_date |-> now])],
     returned |-> Len(store.campaigns) + 1]

RECURSIVE SendToSegments_every_segment(_, _, _, _, _)
\* variant: a segment without contacts is sent to as well
SendToSegments_every_segment(segments, content_results, campaign_name, now, acc) ==
    IF segments = <<>> THEN acc
    ELSE LET persona == Head(segments).persona
             name == campaign_name \o " - " \o persona
             send_result ==
                 send_email_to_contacts(Head(segments).contacts, name, now)
             created ==
                 create_campaign(acc.db, content_results.content_id,
                                 name, send_result.campaign_id, now)
         IN  SendToSegments_every_segment(Tail(segments), content_results,
                 campaign_name, now,
                 [db |-> created.db,
                  campaign_results |->
                      Append(acc.campaign_results,
                             [persona |-> persona, result |-> send_result]),
                  campaign_ids |->
                      Append(acc.campaign_ids,
                             [persona |-> persona, id |-> created.returned])])

RECURSIVE SendToSegments(_, _, _, _, _)
\* the loop over segmented.items(): acc holds the store, campaign_results
\* and campaign_ids so far
SendToSegments(segments, content_results, campaign_name, now, acc) ==
    IF segments = <<>> THEN acc
    ELSE LET persona == Head(segments).persona
             persona_contacts == Head(segments).contacts
             rest == Tail(segments)
         IN  IF persona_contacts = <<>>
             THEN SendToSegments(rest, content_results, campaign_name, now, acc)
             ELSE IF ~HasKey(content_results.newsletters, persona)
             THEN [raised |-> "KeyError", db |-> acc.db]
             ELSE LET name == campaign_name \o " - " \o persona
                      send_result ==
                          send_email_to_contacts(persona_contacts, name, now)
                      created ==
                          create_campaign(acc.db, content_results.content_id,
                                          name, send_result.campaign_id, now)
                  IN  SendToSegments(rest, content_results, campaign_name, now,
                          [db |-> created.db,
                           campaign_results |->
                               Append(acc.campaign_results,
                                      [persona |-> persona,
                                       result |-> send_result]),
                           campaign_ids |->
                               Append(acc.campaign_ids,
                                      [persona |-> persona,
                                       id |-> created.returned])])

\* ContentPipeline._distribute_content; refused says that the store raises
\* on the first write of the step
distribute_content(content_results, test_mode, refused, now, store) ==
    IF test_mode /\ refused
    THEN [raised |-> "OperationalError", db |-> store]
    ELSE LET created == IF test_mode
                        THEN SaveTestContacts(store, TestContacts, <<>>)
                        ELSE [db |-> store, returned |-> <<>>]
             contacts == created.returned
             \* the title and strftime('%Y-%m-%d') of the time
             campaign_name ==
                 content_results.blog.title \o " - 2026-01-0"
                     \o ToString(now + 1)
             sent == SendToSegments(segment_contacts_by_persona(contacts),
                                    content_results, campaign_name, now,
                                    [db |-> created.db,
                                     campaign_results |-> <<>>,
                                     campaign_ids |-> <<>>])
         IN  IF "raised" \in DOMAIN sent
             THEN sent
             ELSE [returned |->
                      [campaign_name |-> campaign_name,
                       campaign_results |-> sent.campaign_results,
                       campaign_ids |-> sent.campaign_ids,
                       contacts |-> contacts],
                   db |-> sent.db]

\* PerformanceAnalyzer.simulate_campaign_performance at the draws u: what
\* each of the three calls of random.uniform draws, as the fraction of the
\* way from the low to the high end of its range
simulate_campaign_performance(campaign_id, persona, contacts_sent, u, now) ==
    LET \* the ends of the range of each rate
        engagement_profiles ==
            [founders |->
                [open_rate |-> <<Rat(22, 100), Rat(35, 100)>>,
                 click_rate |-> <<Rat(8, 100), Rat(15, 100)>>,
                 unsubscribe_rate |-> <<Rat(2, 1000), Rat(8, 1000)>>],
             creatives |->
                [open_rate |-> <<Rat(25, 100), Rat(40, 100)>>,
                 click_rate |-> <<Rat(10, 100), Rat(18, 100)>>,
                 unsubscribe_rate |-> <<Rat(1, 1000), Rat(5, 1000)>>],
             operations |->
                [open_rate |-> <<Rat(18, 100), Rat(28, 100)>>,
                 click_rate |-> <<Rat(6, 100), Rat(12, 100)>>,
                 unsubscribe_rate |-> <<Rat(3, 1000), Rat(10, 1000)>>]]
        \* random.uniform(low, high)
        uniform(range, draw) ==
            RAdd(range[1], RMul(RSub(range[2], range[1]), draw))
        \* int(x) of a number that is not negative
        int(x) == x.n \div x.d
        profile == IF persona \in DOMAIN engagement_profiles
                   THEN engagement_profiles[persona]
                   ELSE engagement_profiles["creatives"]
        open_rate == uniform(profile.open_rate, u.open)
        click_rate == uniform(profile.click_rate, u.click)
        unsubscribe_rate == uniform(profile.unsubscribe_rate, u.unsubscribe)
        opens == int(RMul(FromInt(contacts_sent), open_rate))
        clicks == int(RMul(FromInt(contacts_sent), click_rate))
        unsubscribes == int(RMul(FromInt(contacts_sent), unsubscribe_rate))
    IN  [campaign_id |-> campaign_id,
         persona |-> persona,
         contacts_sent |-> contacts_sent,
         opens |-> opens,
         clicks |-> clicks,
         unsubscribes |-> unsubscribes,
         open_rate |-> open_rate,
         click_rate |-> click_rate,
         unsubscribe_rate |-> unsubscribe_rate,
         click_to_open_rate |-> IF opens > 0 THEN Rat(clicks, opens) ELSE Zero,
         recorded_at |-> isoformat(now)]

\* DataStorage.save_campaign_performance
save_campaign_performance(store, campaign_id, persona, metrics) ==
    [db |-> [store EXCEPT !.campaign_performance =
                Append(@, [id |-> Len(@) + 1,
                           campaign_id |-> campaign_id,
                           persona |-> persona,
                           contacts_sent |-> Get(metrics, "contacts_sent", 0),
                           opens |-> Get(metrics, "opens", 0),
                           clicks |-> Get(metrics, "clicks", 0),
                           unsubscribes |-> Get(metrics, "unsubscribes", 0),
                           open_rate |-> Get(metrics, "open_rate", Zero),
                           click_rate |-> Get(metrics, "click_rate", Zero),
                           unsubscribe_rate |->
                               Get(metrics, "unsubscribe_rate", Zero)])],
     returned |-> Len(store.campaign_performance) + 1]

RECURSIVE CollectEach(_, _, _, _, _)
\* the loop over campaign_results.items(): acc holds the store and
\* performance_data so far; every campaign of the step gets the draws u
CollectEach(campaign_results, campaign_ids, u, now, acc) ==
    IF campaign_results = <<>> THEN acc
    ELSE LET persona == Head(campaign_results).persona
             campaign_result == Head(campaign_results).result
             simulated_perf ==
                 simulate_campaign_performance(
                     Get(campaign_result, "campaign_id", Null), persona,
                     Get(campaign_result, "contacts_sent", 0), u, now)
         IN  IF ~HasKey(campaign_ids, persona)
             THEN [raised |-> "KeyError", db |-> acc.db]
             ELSE CollectEach(Tail(campaign_results), campaign_ids, u, now,
                      [db |-> save_campaign_performance(
                                  acc.db, Lookup(campaign_ids, persona).id,
                                  persona, simulated_perf).db,
                       by_persona |->
                           Append(acc.by_persona,
                                  [persona |-> persona,
                                   perf |-> simulated_perf])])

\* ContentPipeline._collect_performance; refused says that the store raises
\* on the first write of the step
collect_performance(distribution_results, u, refused, now, store) ==
    IF refused /\ distribution_results.campaign_results # <<>>
    THEN [raised |-> "OperationalError", db |-> store]
    ELSE LET collected == CollectEach(distribution_results.campaign_results,
                                      distribution_results.campaign_ids,
                                      u, now,
                                      [db |-> store, by_persona |-> <<>>])
         IN  IF "raised" \in DOMAIN collected
             THEN collected
             ELSE [returned |-> [by_persona |-> collected.by_persona,
                                 collected_at |-> isoformat(now)],
                   db |-> collected.db]

(***************************************************************************)
(* Stores that hold performance rows: campaign i belongs to content i, was *)
(* sent at a time CURRENT_TIMESTAMP gave it, which never decreases from    *)
(* one insertion to the next, and has one performance row.                 *)
(***************************************************************************)
\* limit = 20 of analyze_historical_trends and /api/trends
TrendsLimit == 20

HistoryLimits == {2, TrendsLimit}

\* the rates of a stored row: a campaign that was opened more and clicked
\* less, and one that was opened less and clicked more
StoredRates ==
    { [open_rate |-> Rat(2, 10), click_rate |-> Rat(1, 10)],
      [open_rate |-> Rat(1, 10), click_rate |-> Rat(2, 10)] }

StoredPerformance ==
    { [persona |-> p, open_rate |-> r.open_rate, click_rate |-> r.click_rate,
       send_date |-> t] :
        p \in Personas, r \in StoredRates, t \in 1 .. MaxDate }

StoreOf(rows) ==
    [content |-> [i \in 1 .. Len(rows) |-> [id |-> i]],
     newsletters |-> <<>>,
     contacts |-> <<>>,
     campaigns |->
         [i \in 1 .. Len(rows) |->
             [id |-> i, content_id |-> i, send_date |-> rows[i].send_date]],
     campaign_performance |->
         [i \in 1 .. Len(rows) |->
             [campaign_id |-> i,
              persona |-> rows[i].persona,
              open_rate |-> rows[i].open_rate,
              click_rate |-> rows[i].click_rate]],
     performance_insights |-> <<>>]

HistoryStores ==
    { StoreOf(rows) :
        rows \in UNION { { t \in [1 .. len -> StoredPerformance] :
                              \A i \in 1 .. len - 1 :
                                  t[i].send_date <= t[i + 1].send_date } :
                          len \in 0 .. MaxRows } }

(***************************************************************************)
(* The calls.                                                              *)
(***************************************************************************)
MetricsCalls ==
    { [op |-> "calculate_metrics", arg |-> a] : a \in RawDataInputs }

BenchmarkCalls ==
    { [op |-> "compare_to_benchmarks", arg |-> a] : a \in BenchmarkInputs }

TrendsCalls ==
    { [op |-> "identify_trends", arg |-> a] : a \in HistoryInputs }

SuggestCalls ==
    { [op |-> "suggest_optimization",
       arg |-> [metrics |-> m, content_context |-> c]] :
        m \in SuggestMetricsInputs, c \in ContentContexts }

InsightsCalls ==
    { [op |-> "generate_performance_insights",
       arg |-> [performance_data |-> d, campaign_context |-> c]] :
        d \in PerformanceDataInputs, c \in ContentContexts }

InsightStepCalls ==
    { [op |-> "_generate_insights",
       arg |-> [performance_results |-> p, content_results |-> c]] :
        p \in PerformanceResultsInputs, c \in ContentResultsInputs }

\* the calls of a caller that makes one call after another
SequenceCalls ==
    { [op |-> "calculate_metrics", arg |-> a] :
        a \in {ScenarioRawCounts, [sent |-> 0, opens |-> 2, clicks |-> 1]} }
    \cup { [op |-> "compare_to_benchmarks", arg |-> a] :
             a \in { [open_rate |-> Rat(22, 100), click_rate |-> Rat(10, 100),
                      unsubscribe_rate |-> Rat(2, 1000)],
                     [open_rate |-> Rat(15, 100)] } }
    \cup { [op |-> "identify_trends", arg |-> a] :
             a \in { <<>>,
                     <<[persona |-> "founders", open_rate |-> Rat(1, 10),
                        click_rate |-> Rat(2, 10)],
                       [persona |-> "founders", open_rate |-> Rat(2, 10),
                        click_rate |-> Rat(1, 10)]>> } }
    \cup { [op |-> "suggest_optimization",
            arg |-> [metrics |-> m, content_context |-> BlogWithTopic]] :
             m \in {LowPerformance, StrongPerformancePerf} }

ContactCalls == { [op |-> "save_contact", arg |-> a] : a \in ContactInputs }

HistoryCalls ==
    { [op |-> "get_historical_performance", arg |-> a] : a \in HistoryLimits }

\* one of the calls is about to be made on one of the stores, with one of
\* the scripts of the service
InitWith(calls, stores, scripts) ==
    \E c \in calls, store \in stores, script \in scripts :
        /\ op = c.op
        /\ arg = c.arg
        /\ pc = "called"
        /\ result = <<>>
        /\ db = store
        /\ external_calls = 0
        /\ log = <<>>
        /\ service = script

\* no request is sent, so what the service would answer is left out
InitOn(calls, stores) == InitWith(calls, stores, {<<>>})

\* after construction: one of the calls is about to be made
InitCalls(calls) == InitOn(calls, {EmptyDb})

\* the latest of the earlier calls of an operation, 0 when there is none
LatestCall(operation) ==
    IF \E i \in 1 .. Len(log) : log[i].op = operation
    THEN CHOOSE i \in 1 .. Len(log) :
             /\ log[i].op = operation
             /\ \A j \in i + 1 .. Len(log) : log[j].op # operation
    ELSE 0

\* variant: the analyzer keeps running totals, so the opens of the latest
\* earlier call are counted again
CalculateMetrics_running_totals ==
    /\ pc = "called"
    /\ op = "calculate_metrics"
    /\ result' =
           IF LatestCall("calculate_metrics") = 0
           THEN calculate_metrics(arg)
           ELSE [calculate_metrics(arg) EXCEPT
                    !.opens = @ + log[LatestCall("calculate_metrics")]
                                      .returned.opens]
    /\ pc' = "returned"
    /\ UNCHANGED <<op, arg, outside>>

CalculateMetrics ==
    /\ pc = "called"
    /\ op = "calculate_metrics"
    /\ result' = calculate_metrics(arg)
    /\ pc' = "returned"
    /\ UNCHANGED <<op, arg, outside>>

\* variant: the benchmarks are one mapping shared by all calls, so that what
\* a caller did to the benchmarks of the latest result shows in the next
CompareToBenchmarks_shared_benchmarks ==
    /\ pc = "called"
    /\ op = "compare_to_benchmarks"
    /\ result' =
           IF LatestCall("compare_to_benchmarks") = 0
           THEN compare_to_benchmarks(arg)
           ELSE [compare_to_benchmarks(arg) EXCEPT
                    !.benchmarks = log[LatestCall("compare_to_benchmarks")]
                                       .held.benchmarks]
    /\ pc' = "returned"
    /\ UNCHANGED <<op, arg, outside>>

CompareToBenchmarks ==
    /\ pc = "called"
    /\ op = "compare_to_benchmarks"
    /\ result' = compare_to_benchmarks(arg)
    /\ pc' = "returned"
    /\ UNCHANGED <<op, arg, outside>>

IdentifyTrends ==
    /\ pc = "called"
    /\ op = "identify_trends"
    /\ \E now \in 0 .. MaxClock : result' = identify_trends(arg, now)
    /\ pc' = "returned"
    /\ UNCHANGED <<op, arg, outside>>

SuggestOptimization ==
    /\ pc = "called"
    /\ op = "suggest_optimization"
    /\ result' = suggest_optimization(arg.metrics, arg.content_context)
    /\ pc' = "returned"
    /\ UNCHANGED <<op, arg, outside>>

\* the answers the service gives from the next request on
Answers == SubSeq(service, external_calls + 1, Len(service))

GeneratePerformanceInsights ==
    /\ pc = "called"
    /\ op = "generate_performance_insights"
    /\ \E now \in 0 .. MaxClock :
           LET outcome == generate_performance_insights(
                              arg.performance_data, arg.campaign_context,
                              Answers, now)
           IN  /\ external_calls' = external_calls + outcome.calls
               /\ IF "raised" \in DOMAIN outcome
                  THEN pc' = "raised" /\ result' = [raised |-> outcome.raised]
                  ELSE pc' = "returned" /\ result' = outcome.returned
    /\ UNCHANGED <<op, arg, db, log, service>>

\* ContentPipeline._generate_insights
GenerateInsights ==
    /\ pc = "called"
    /\ op = "_generate_insights"
    /\ \E now \in 0 .. MaxClock :
           LET outcome == generate_insights(arg.performance_results,
                                            arg.content_results,
                                            Answers, now, db)
           IN  /\ external_calls' = external_calls + outcome.calls
               /\ db' = outcome.db
               /\ IF "raised" \in DOMAIN outcome
                  THEN pc' = "raised" /\ result' = [raised |-> outcome.raised]
                  ELSE pc' = "returned" /\ result' = outcome.returned
    /\ UNCHANGED <<op, arg, log, service>>

\* DataStorage.get_historical_performance
GetHistoricalPerformance ==
    /\ pc = "called"
    /\ op = "get_historical_performance"
    /\ result' \in get_historical_performance(db, arg)
    /\ pc' = "returned"
    /\ UNCHANGED <<op, arg, outside>>

\* ContentPipeline.analyze_historical_trends and get_trends of the
\* dashboard: the list that came back is handed to identify_trends as it is
AnalyzeHistoricalTrends ==
    /\ pc = "returned"
    /\ op = "get_historical_performance"
    /\ op' = "identify_trends"
    /\ arg' = result
    /\ pc' = "called"
    /\ result' = <<>>
    /\ UNCHANGED outside

\* the caller takes the result and makes its next call
NextCall ==
    /\ pc = "returned"
    /\ Len(log) < MaxCalls
    /\ log' = Append(log, [op |-> op, arg |-> arg, returned |-> result,
                           held |-> result])
    /\ \E c \in SequenceCalls :
           /\ op' = c.op
           /\ arg' = c.arg
    /\ pc' = "called"
    /\ result' = <<>>
    /\ UNCHANGED <<db, external_calls, service>>

\* what a caller may do to a result it holds: set a benchmark of a
\* comparison to another value, or zero the score of computed metrics
Edited(operation, held) ==
    IF operation = "compare_to_benchmarks"
    THEN [held EXCEPT !.benchmarks = [@ EXCEPT !.open_rate = Rat(50, 100)]]
    ELSE IF operation = "calculate_metrics"
    THEN [held EXCEPT !.engagement_score = Zero]
    ELSE held

\* the caller changes a result it received earlier
CallerEdits ==
    /\ \E i \in 1 .. Len(log) :
           /\ Edited(log[i].op, log[i].held) # log[i].held
           /\ log' = [log EXCEPT ![i].held = Edited(log[i].op, @)]
    /\ UNCHANGED <<op, arg, pc, result, db, external_calls, service>>

\* DataStorage.save_contact
SaveContact ==
    /\ pc = "called"
    /\ op = "save_contact"
    /\ db' = save_contact(db, arg).db
    /\ result' = save_contact(db, arg).returned
    /\ pc' = "returned"
    /\ UNCHANGED <<op, arg, external_calls, log, service>>

\* the loop of _create_test_contacts: the next contact is saved
NextContact ==
    /\ pc = "returned"
    /\ op = "save_contact"
    /\ Len(log) < MaxCalls
    /\ log' = Append(log, [op |-> op, arg |-> arg, returned |-> result,
                           held |-> result])
    /\ \E c \in ContactCalls :
           /\ op' = c.op
           /\ arg' = c.arg
    /\ pc' = "called"
    /\ result' = <<>>
    /\ UNCHANGED <<db, external_calls, service>>

\* calls of any of the four operations that compute without the store or
\* the service
Init ==
    InitCalls(MetricsCalls \cup BenchmarkCalls \cup TrendsCalls
                  \cup SuggestCalls)

Next ==
    \/ CalculateMetrics
    \/ CompareToBenchmarks
    \/ IdentifyTrends
    \/ SuggestOptimization

Spec == Init /\ [][Next]_vars

\* calls of calculate_metrics
InitMetrics == InitCalls(MetricsCalls)
NextMetrics == CalculateMetrics
SpecMetrics == InitMetrics /\ [][NextMetrics]_vars

\* calls of compare_to_benchmarks
InitBenchmarks == InitCalls(BenchmarkCalls)
NextBenchmarks == CompareToBenchmarks
SpecBenchmarks == InitBenchmarks /\ [][NextBenchmarks]_vars

\* calls of identify_trends
InitTrends == InitCalls(TrendsCalls)
NextTrends == IdentifyTrends
SpecTrends == InitTrends /\ [][NextTrends]_vars

\* calls of suggest_optimization
InitSuggest == InitCalls(SuggestCalls)

NextSuggest == SuggestOptimization

SpecSuggest == InitSuggest /\ [][NextSuggest]_vars

\* calls of generate_performance_insights and of the insight step
InitInsights ==
    InitWith(InsightsCalls \cup InsightStepCalls, {EmptyDb}, ServiceScripts)

NextInsights ==
    \/ GeneratePerformanceInsights
    \/ GenerateInsights

SpecInsights == InitInsights /\ [][NextInsights]_vars

\* one call after another
InitSequence == InitCalls(SequenceCalls)

NextSequence ==
    \/ CalculateMetrics
    \/ CompareToBenchmarks
    \/ IdentifyTrends
    \/ SuggestOptimization
    \/ NextCall
    \/ CallerEdits

SpecSequence == InitSequence /\ [][NextSequence]_vars

\* contacts saved one after another
InitContacts == InitCalls(ContactCalls)

NextContacts ==
    \/ SaveContact
    \/ NextContact

SpecContacts == InitContacts /\ [][NextContacts]_vars

\* trends over the history of a store
InitHistory == InitOn(HistoryCalls, HistoryStores)

NextHistory ==
    \/ GetHistoricalPerformance
    \/ AnalyzeHistoricalTrends
    \/ IdentifyTrends

SpecHistory == InitHistory /\ [][NextHistory]_vars

(***************************************************************************)
(* ContentPipeline.run_full_pipeline, a step at a time, and the route      *)
(* POST /api/pipeline/run of the dashboard that runs it.  While a run is   *)
(* under way result holds its results dict; arg.clock is the time the run  *)
(* reads.                                                                  *)
(***************************************************************************)
\* what the service answers to the request of a run: a failure, the answer asked for, an answer whose
\* recommendations are a number
PipelineAnswers ==
    {APIError, AskedForAnswer,
     JsonObject([key_insights |-> JStr("Opens are strong"),
                 recommendations |-> JInt(5)])}

\* the calls of run_full_pipeline
PipelineCalls ==
    { [op |-> "run_full_pipeline",
       arg |-> [topic |-> topic, test_mode |-> test_mode, clock |-> 0]] :
        topic \in {"AI"}, test_mode \in BOOLEAN }

\* the requests to the route: a body with a topic, with an empty topic,
\* with no topic
RouteCalls ==
    { [op |-> "run_pipeline", arg |-> [body |-> body, clock |-> 0]] :
        body \in { [topic |-> "AI"], [topic |-> ""],
                   [key \in {} |-> ""] } }

\* variant: the except branch sets the status and drops the error text
Failed_without_text(results, error) == SetItem(results, "status", "error")

\* the except branch of run_full_pipeline
Failed(results, error) ==
    SetItem(SetItem(results, "status", "error"), "error", error)

\* a step of the run has returned or raised: the results and the position;
\* when run_full_pipeline returns, the route goes on ("ran")
StepDone(results, key, outcome, next) ==
    /\ db' = outcome.db
    /\ IF "raised" \in DOMAIN outcome
       THEN /\ result' = Failed(results, outcome.raised)
            /\ pc' = IF op = "run_pipeline" THEN "ran" ELSE "returned"
       ELSE /\ result' = SetItem(results, key, outcome.returned)
            /\ pc' = next

\* run_full_pipeline is entered and runs _generate_content
PipelineContent ==
    /\ pc = "called"
    /\ \/ op = "run_full_pipeline"
       \/ op = "run_pipeline" /\ Get(arg.body, "topic", "") # ""
    /\ \E outcome \in {"ok", "blog_fails", "newsletters_fail",
                       "export_fails"} :
           LET topic == IF op = "run_pipeline" THEN arg.body.topic
                        ELSE arg.topic
           IN  StepDone([topic |-> topic,
                         started_at |-> isoformat(arg.clock),
                         status |-> "in_progress"],
                        "content", generate_content(topic, outcome, db),
                        "distribution")
    /\ UNCHANGED <<op, arg, external_calls, log, service>>

\* _distribute_content; the route runs the pipeline with test_mode=True
PipelineDistribution ==
    /\ pc = "distribution"
    /\ \E refused \in BOOLEAN :
           StepDone(result, "distribution",
                    distribute_content(result.content,
                                       op = "run_pipeline" \/ arg.test_mode,
                                       refused, arg.clock, db),
                    "performance")
    /\ UNCHANGED <<op, arg, external_calls, log, service>>

\* _collect_performance
PipelinePerformance ==
    /\ pc = "performance"
    /\ \E u \in { [open |-> Zero, click |-> Zero, unsubscribe |-> Zero],
                  [open |-> Zero, click |-> Rat(9, 10),
                   unsubscribe |-> Zero],
                  [open |-> Rat(9, 10), click |-> Rat(9, 10),
                   unsubscribe |-> Rat(9, 10)] },
          refused \in BOOLEAN :
           StepDone(result, "performance",
                    collect_performance(result.distribution, u, refused,
                                        arg.clock, db),
                    "insights")
    /\ UNCHANGED <<op, arg, external_calls, log, service>>

\* _print_summary raises on recs[0] when recommendations is a number other
\* than 0
print_summary_raises(results) ==
    LET recs == Get(results.insights, "recommendations", JList(<<>>))
    IN  "int" \in DOMAIN recs /\ recs.int # 0

\* _generate_insights, and then the end of the try block
PipelineInsights ==
    /\ pc = "insights"
    /\ LET outcome == generate_insights(result.performance, result.content,
                                        Answers, arg.clock, db)
       IN  /\ external_calls' = external_calls + outcome.calls
           /\ db' = outcome.db
           /\ IF "raised" \in DOMAIN outcome
              THEN result' = Failed(result, outcome.raised)
              ELSE LET completed ==
                           SetItem(SetItem(SetItem(result,
                               "insights", outcome.returned),
                               "status", "completed"),
                               "completed_at", isoformat(arg.clock))
                   IN  IF print_summary_raises(completed)
                       THEN result' = Failed(completed, "TypeError")
                       ELSE result' = completed
    /\ pc' = IF op = "run_pipeline" THEN "ran" ELSE "returned"
    /\ UNCHANGED <<op, arg, log, service>>

\* the route answers 400 to a request without a topic
RunPipelineRejects ==
    /\ pc = "called"
    /\ op = "run_pipeline"
    /\ Get(arg.body, "topic", "") = ""
    /\ result' = [status_code |-> 400,
                  body |-> [status |-> "error",
                            message |-> "Topic is required"]]
    /\ pc' = "returned"
    /\ UNCHANGED <<op, arg, db, external_calls, log, service>>

\* the route answers after the run: run is the results dict it got
RunPipelineResponds ==
    /\ pc = "ran"
    /\ op = "run_pipeline"
    /\ result' =
           IF "content" \notin DOMAIN result
           THEN [status_code |-> 500,
                 body |-> [status |-> "error", message |-> "'content'"],
                 run |-> result]
           ELSE IF "distribution" \notin DOMAIN result
           THEN [status_code |-> 500,
                 body |-> [status |-> "error", message |-> "'distribution'"],
                 run |-> result]
           ELSE IF "performance" \notin DOMAIN result
           THEN [status_code |-> 500,
                 body |-> [status |-> "error", message |-> "'performance'"],
                 run |-> result]
           ELSE [status_code |-> 200,
                 body |->
                     [status |-> "success",
                      message |-> "Pipeline executed successfully",
                      results |->
                          [content_id |-> result.content.content_id,
                           blog_title |-> result.content.blog.title,
                           campaigns_sent |->
                               Len(result.distribution.campaign_results),
                           performance |-> result.performance]],
                 run |-> result]
    /\ pc' = "returned"
    /\ UNCHANGED <<op, arg, db, external_calls, log, service>>

\* the next run or request, at a later time
NextRun ==
    /\ pc = "returned"
    /\ op \in {"run_full_pipeline", "run_pipeline"}
    /\ Len(log) + 1 < MaxRuns
    /\ arg.clock < MaxClock
    /\ log' = Append(log, [op |-> op, arg |-> arg, returned |-> result,
                           held |-> db])
    /\ \E c \in PipelineCalls \cup RouteCalls :
           /\ op' = c.op
           /\ arg' = [c.arg EXCEPT !.clock = arg.clock + 1]
    /\ pc' = "called"
    /\ result' = <<>>
    /\ UNCHANGED <<db, external_calls, service>>

\* runs of the pipeline, directly and through the route, on a store that
\* starts empty
InitPipeline ==
    InitWith(PipelineCalls \cup RouteCalls, {EmptyDb},
             [1 .. MaxRuns -> PipelineAnswers])

NextPipeline ==
    \/ PipelineContent
    \/ PipelineDistribution
    \/ PipelinePerformance
    \/ PipelineInsights
    \/ RunPipelineRejects
    \/ RunPipelineResponds
    \/ NextRun

SpecPipeline == InitPipeline /\ [][NextPipeline]_vars

Returned(operation) == pc = "returned" /\ op = operation

(***************************************************************************)
(* Properties of calculate_metrics (checked under SpecMetrics).            *)
(***************************************************************************)
\* the counts calculate_metrics reads from its argument
SentOf(raw_data) == Get(raw_data, "sent", 0)
OpensOf(raw_data) == Get(raw_data, "opens", 0)
ClicksOf(raw_data) == Get(raw_data, "clicks", 0)
BouncesOf(raw_data) == Get(raw_data, "bounces", 0)
UnsubscribesOf(raw_data) == Get(raw_data, "unsubscribes", 0)

\* rate is the quotient num / den (den > 0), stated without division
IsQuotient(rate, num, den) == rate.d > 0 /\ rate.n * den = num * rate.d

\* the argument gives sent = 0
SentIsZero(raw_data) == "sent" \in DOMAIN raw_data /\ raw_data["sent"] = 0

\* C1 as stated: whenever sent = 0, every derived rate, click_to_open_rate
\* included, is 0 and engagement_score is 0.0.
C1_AllRatesZeroWhenSentZero ==
    (Returned("calculate_metrics") /\ SentIsZero(arg)) =>
        /\ result.open_rate = Zero
        /\ result.click_rate = Zero
        /\ result.click_to_open_rate = Zero
        /\ result.bounce_rate = Zero
        /\ result.unsubscribe_rate = Zero
        /\ result.engagement_score = Zero

\* C1 as amended: whenever sent = 0, the four rates over sent (open_rate,
\* click_rate, bounce_rate, unsubscribe_rate) are 0 and engagement_score is
\* 0.0; click_to_open_rate is 0 when opens = 0 and clicks / opens otherwise.
C1_SentRatesZeroWhenSentZero ==
    (Returned("calculate_metrics") /\ SentIsZero(arg)) =>
        /\ result.open_rate = Zero
        /\ result.click_rate = Zero
        /\ result.bounce_rate = Zero
        /\ result.unsubscribe_rate = Zero
        /\ result.engagement_score = Zero
        /\ OpensOf(arg) = 0 => result.click_to_open_rate = Zero
        /\ OpensOf(arg) > 0 =>
               IsQuotient(result.click_to_open_rate, ClicksOf(arg), OpensOf(arg))

\* a call with sent = 0, two opens and one click has returned
C1_Witness ==
    /\ Returned("calculate_metrics")
    /\ SentIsZero(arg)
    /\ OpensOf(arg) = 2 /\ ClicksOf(arg) = 1 /\ BouncesOf(arg) = 1
    /\ UnsubscribesOf(arg) = 1
    /\ result.click_to_open_rate = [n |-> 1, d |-> 2]

\* C2: for all non-negative counts, opens > sent and unsubscribes > sent
\* included, engagement_score lies within [0, 100].
C2_ScoreWithinBounds ==
    Returned("calculate_metrics") =>
        /\ result.engagement_score.d > 0
        /\ 0 <= result.engagement_score.n
        /\ result.engagement_score.n <= 100 * result.engagement_score.d

\* a call with more opens than sends has returned the score 100, and the
\* weighted sum is far above the ceiling
C2_Witness ==
    /\ Returned("calculate_metrics")
    /\ SentOf(arg) = 1 /\ OpensOf(arg) = 3 /\ ClicksOf(arg) = 3
    /\ UnsubscribesOf(arg) = 0
    /\ result.engagement_score = FromInt(100)

\* 30 * opens + 50 * clicks - 20 * unsubscribes
WeightedSum(raw_data) ==
    30 * OpensOf(raw_data) + 50 * ClicksOf(raw_data)
        - 20 * UnsubscribesOf(raw_data)

\* C3: for sent > 0 the score is (weighted sum / sent) * 100 clamped to
\* [0, 100] and rounded to 2 decimals: 100 when the weighted sum is >= sent,
\* 0 when it is <= 0, otherwise the multiple of 1/100 nearest to
\* 100 * weighted sum / sent; bounces never affect it.
C3_ScoreFormula ==
    (Returned("calculate_metrics") /\ SentOf(arg) > 0) =>
        LET w == WeightedSum(arg)
            sent == SentOf(arg)
            score == result.engagement_score
            \* the score in hundredths
            h == (score.n * 100) \div score.d
        IN  /\ (score.n * 100) % score.d = 0
            /\ w >= sent => score = FromInt(100)
            /\ w <= 0 => score = Zero
            /\ (0 < w /\ w < sent) =>
                   2 * Abs(h * sent - 10000 * w) <= sent
            /\ \A b \in 0 .. MaxBounces + 1 :
                   calculate_metrics(
                       [k \in DOMAIN arg \cup {"bounces"} |->
                           IF k = "bounces" THEN b ELSE arg[k]]
                   ).engagement_score = score

\* one open and one bounce in 30 sends, with one unsubscribe: the weighted
\* sum is 10 and the score is 33.33
C3_Witness ==
    /\ Returned("calculate_metrics")
    /\ SentOf(arg) = 30 /\ OpensOf(arg) = 1 /\ ClicksOf(arg) = 0
    /\ UnsubscribesOf(arg) = 1 /\ BouncesOf(arg) = 1
    /\ result.engagement_score = Rat(3333, 100)

\* C4: each derived rate is numerator / denominator when its denominator is
\* > 0 and 0 when it is 0; the denominator is sent for open_rate, click_rate,
\* bounce_rate and unsubscribe_rate, and opens for click_to_open_rate; the
\* raw counts are echoed back unchanged.
C4_DerivedRates ==
    Returned("calculate_metrics") =>
        LET sent == SentOf(arg)
            opens == OpensOf(arg)
            RateIs(rate, num, den) ==
                IF den > 0 THEN IsQuotient(rate, num, den) ELSE rate = Zero
        IN  /\ RateIs(result.open_rate, opens, sent)
            /\ RateIs(result.click_rate, ClicksOf(arg), sent)
            /\ RateIs(result.bounce_rate, BouncesOf(arg), sent)
            /\ RateIs(result.unsubscribe_rate, UnsubscribesOf(arg), sent)
            /\ RateIs(result.click_to_open_rate, ClicksOf(arg), opens)
            /\ result.contacts_sent = sent
            /\ result.opens = opens
            /\ result.clicks = ClicksOf(arg)
            /\ result.bounces = BouncesOf(arg)
            /\ result.unsubscribes = UnsubscribesOf(arg)

\* three opens and one click in two sends: open_rate is 3/2 and
\* click_to_open_rate is 1/3
C4_Witness ==
    /\ Returned("calculate_metrics")
    /\ SentOf(arg) = 2 /\ OpensOf(arg) = 3 /\ ClicksOf(arg) = 1
    /\ result.open_rate = [n |-> 3, d |-> 2]
    /\ result.click_to_open_rate = [n |-> 1, d |-> 3]
    /\ result.opens = 3

\* the mapping with every absent raw key set to 0
WithDefaults(raw_data) ==
    [k \in RawKeys |-> IF k \in DOMAIN raw_data THEN raw_data[k] ELSE 0]

\* C5: on a mapping that lacks any subset of the five raw keys,
\* calculate_metrics returns what it returns for the same mapping with every
\* absent key set to 0; it echoes 0 for each absent count.
C5_AbsentKeysDefaultToZero ==
    Returned("calculate_metrics") =>
        /\ result = calculate_metrics(WithDefaults(arg))
        /\ "sent" \notin DOMAIN arg => result.contacts_sent = 0
        /\ "opens" \notin DOMAIN arg => result.opens = 0
        /\ "clicks" \notin DOMAIN arg => result.clicks = 0
        /\ "bounces" \notin DOMAIN arg => result.bounces = 0
        /\ "unsubscribes" \notin DOMAIN arg => result.unsubscribes = 0

\* a mapping with opens and clicks but neither sent nor bounces has been
\* served
C5_Witness ==
    /\ Returned("calculate_metrics")
    /\ DOMAIN arg = {"opens", "clicks"}
    /\ arg["opens"] = 2 /\ arg["clicks"] = 1
    /\ result.contacts_sent = 0
    /\ result.open_rate = Zero
    /\ result.click_to_open_rate = [n |-> 1, d |-> 2]

(***************************************************************************)
(* Properties of compare_to_benchmarks (checked under SpecBenchmarks).     *)
(***************************************************************************)
BenchmarkedMetrics == {"open_rate", "click_rate", "unsubscribe_rate"}

\* the benchmarks 0.21, 0.10 and 0.005 in thousandths
BenchmarkPermille(metric) ==
    CASE metric = "open_rate" -> 210
      [] metric = "click_rate" -> 100
      [] metric = "unsubscribe_rate" -> 5

\* the rate the comparison takes for a metric: 0 when the mapping lacks it
ActualOf(metrics, metric) ==
    IF metric \in DOMAIN metrics THEN metrics[metric] ELSE Zero

\* C6: each of open_rate, click_rate and unsubscribe_rate is classified on
\* its own: 'above' iff actual > benchmark, 'below' iff actual < benchmark,
\* 'at' iff actual = benchmark (0.21, 0.10, 0.005); no other status occurs.
C6_StatusClassification ==
    Returned("compare_to_benchmarks") =>
        /\ DOMAIN result.performance = BenchmarkedMetrics
        /\ \A metric \in BenchmarkedMetrics :
               LET actual == ActualOf(arg, metric)
                   status == result.performance[metric].status
                   b == BenchmarkPermille(metric)
               IN  /\ status \in {"above", "below", "at"}
                   /\ status = "above" <=> actual.n * 1000 > b * actual.d
                   /\ status = "below" <=> actual.n * 1000 < b * actual.d
                   /\ status = "at" <=> actual.n * 1000 = b * actual.d

\* one comparison returned 'above' for open_rate 0.22, 'at' for click_rate
\* 0.10 and 'below' for unsubscribe_rate 0.002
C6_Witness ==
    /\ Returned("compare_to_benchmarks")
    /\ DOMAIN arg = BenchmarkedMetrics
    /\ arg["open_rate"] = Rat(22, 100)
    /\ arg["click_rate"] = Rat(10, 100)
    /\ arg["unsubscribe_rate"] = Rat(2, 1000)
    /\ result.performance["open_rate"].status = "above"
    /\ result.performance["click_rate"].status = "at"
    /\ result.performance["unsubscribe_rate"].status = "below"

(***************************************************************************)
(* Properties of identify_trends (checked under SpecTrends).               *)
(***************************************************************************)
\* the positions of the history that hold a record of the persona
PositionsOf(history, persona) ==
    { i \in 1 .. Len(history) : PersonaOf(history[i]) = persona }

\* the rate a record contributes: 0 when the record lacks the key
RateOf(data, key) == IF key \in DOMAIN data THEN data[key] ELSE Zero

RECURSIVE RecordsOf(_, _)
\* the records of the persona, in the order of the history
RecordsOf(history, persona) ==
    IF history = <<>>
    THEN <<>>
    ELSE IF PersonaOf(Head(history)) = persona
    THEN <<Head(history)>> \o RecordsOf(Tail(history), persona)
    ELSE RecordsOf(Tail(history), persona)

\* the record at index k (from 0, as in the source)
At(records, k) == records[k + 1]

RECURSIVE SumFromTo(_, _, _, _)
\* the sum of the rate over the records at the indices lo .. hi - 1
SumFromTo(records, key, lo, hi) ==
    IF lo >= hi
    THEN Zero
    ELSE RAdd(RateOf(At(records, lo), key), SumFromTo(records, key, lo + 1, hi))

\* the mean of the rate over the records at the indices lo .. hi - 1
MeanFromTo(records, key, lo, hi) ==
    RDiv(SumFromTo(records, key, lo, hi), FromInt(hi - lo))

Succeeded == "status" \in DOMAIN result /\ result.status = "success"

\* C7: the result is 'insufficient_data' without a 'trends' key exactly when
\* the history has fewer than 2 records; every history of 2 or more records
\* gives 'success', with an empty trends map and personas_analyzed = 0 when
\* no persona has 2 records.
C7_InsufficientDataIffShortHistory ==
    Returned("identify_trends") =>
        /\ "status" \in DOMAIN result
        /\ result.status \in {"insufficient_data", "success"}
        /\ result.status = "insufficient_data" <=> Len(arg) < 2
        /\ result.status = "insufficient_data" => "trends" \notin DOMAIN result
        /\ result.status = "success" =>
               /\ {"trends", "personas_analyzed", "analyzed_at"}
                      \subseteq DOMAIN result
               /\ (\A i, j \in 1 .. Len(arg) :
                       i # j => PersonaOf(arg[i]) # PersonaOf(arg[j]))
                   => /\ DOMAIN result.trends = {}
                      /\ result.personas_analyzed = 0

\* a history of two records of two different personas gave 'success' with
\* an empty trends map
C7_Witness ==
    /\ Returned("identify_trends")
    /\ Len(arg) = 2
    /\ PersonaOf(arg[1]) = "founders" /\ PersonaOf(arg[2]) = "creatives"
    /\ Succeeded
    /\ DOMAIN result.trends = {}
    /\ result.personas_analyzed = 0

\* C8: in a 'success' result the keys of the trends map are exactly the
\* personas with at least 2 records in the history, and personas_analyzed
\* is the number of keys.
C8_TrendKeysArePersonasWithTwoRecords ==
    (Returned("identify_trends") /\ Len(arg) >= 2) =>
        /\ Succeeded
        /\ DOMAIN result.trends =
               { persona \in {"founders", "creatives", "unknown"} :
                   Cardinality(PositionsOf(arg, persona)) >= 2 }
        /\ result.personas_analyzed = Cardinality(DOMAIN result.trends)

\* two records of founders around one of creatives: only founders is
\* reported
C8_Witness ==
    /\ Returned("identify_trends")
    /\ Len(arg) = 3
    /\ PersonaOf(arg[1]) = "founders" /\ PersonaOf(arg[2]) = "creatives"
    /\ PersonaOf(arg[3]) = "founders"
    /\ Succeeded
    /\ DOMAIN result.trends = {"founders"}
    /\ result.personas_analyzed = 1

\* C9: a group of N >= 2 records is split in caller order at mid = N \div 2;
\* the change of a rate is the mean over the records mid .. N-1 minus the mean
\* over the records 0 .. mid-1; the trend is 'improving' iff the change is
\* strictly positive and 'declining' otherwise; for N = 2 it is 'improving'
\* iff the record at index 1 has a strictly greater rate than the one at 0.
C9_TrendFromHalves ==
    (Returned("identify_trends") /\ Succeeded) =>
        \A persona \in DOMAIN result.trends :
            LET records == RecordsOf(arg, persona)
                N == Len(records)
                mid == N \div 2
                trend == result.trends[persona]
                Change(key) ==
                    RSub(MeanFromTo(records, key, mid, N),
                         MeanFromTo(records, key, 0, mid))
                Direction(change) ==
                    IF change.n > 0 THEN "improving" ELSE "declining"
                Greater(key) ==
                    RGt(RateOf(At(records, 1), key), RateOf(At(records, 0), key))
            IN  /\ trend.open_rate_change = Change("open_rate")
                /\ trend.click_rate_change = Change("click_rate")
                /\ trend.open_rate_trend = Direction(trend.open_rate_change)
                /\ trend.click_rate_trend = Direction(trend.click_rate_change)
                /\ N = 2 =>
                       /\ trend.open_rate_trend = "improving"
                              <=> Greater("open_rate")
                       /\ trend.click_rate_trend = "improving"
                              <=> Greater("click_rate")

\* three records of founders with open rates 0.2, 0.1, 0.2 and click rates
\* 0.1, 0.2, 0.1: the first half is the first record alone, so the open rate
\* changes by -1/20 (declining) and the click rate by 1/20 (improving)
C9_Witness ==
    /\ Returned("identify_trends")
    /\ Len(arg) = 3
    /\ \A i \in 1 .. 3 : PersonaOf(arg[i]) = "founders"
    /\ RateOf(arg[1], "open_rate") = Rat(2, 10)
    /\ RateOf(arg[2], "open_rate") = Rat(1, 10)
    /\ RateOf(arg[3], "open_rate") = Rat(2, 10)
    /\ RateOf(arg[1], "click_rate") = Rat(1, 10)
    /\ RateOf(arg[2], "click_rate") = Rat(2, 10)
    /\ RateOf(arg[3], "click_rate") = Rat(1, 10)
    /\ Succeeded
    /\ result.trends["founders"].open_rate_change = Rat(-1, 20)
    /\ result.trends["founders"].open_rate_trend = "declining"
    /\ result.trends["founders"].click_rate_change = Rat(1, 20)
    /\ result.trends["founders"].click_rate_trend = "improving"

\* C10: for each reported persona, campaigns_analyzed is the number of its
\* records in the history, and avg_open_rate and avg_click_rate are the sums
\* of open_rate and click_rate over all of those records divided by that
\* number.
C10_AveragesOverAllRecords ==
    (Returned("identify_trends") /\ Succeeded) =>
        \A persona \in DOMAIN result.trends :
            LET records == RecordsOf(arg, persona)
                N == Cardinality(PositionsOf(arg, persona))
                trend == result.trends[persona]
            IN  /\ trend.campaigns_analyzed = N
                /\ Len(records) = N
                /\ RMul(trend.avg_open_rate, FromInt(N)) =
                       SumFromTo(records, "open_rate", 0, N)
                /\ RMul(trend.avg_click_rate, FromInt(N)) =
                       SumFromTo(records, "click_rate", 0, N)

\* three records of creatives with open rates 0.1, 0.1, 0.2 and click rates
\* 0.2, 0.1, 0.1 average 2/15 each, which is the mean of neither half
C10_Witness ==
    /\ Returned("identify_trends")
    /\ Len(arg) = 3
    /\ \A i \in 1 .. 3 : PersonaOf(arg[i]) = "creatives"
    /\ RateOf(arg[1], "open_rate") = Rat(1, 10)
    /\ RateOf(arg[2], "open_rate") = Rat(1, 10)
    /\ RateOf(arg[3], "open_rate") = Rat(2, 10)
    /\ RateOf(arg[1], "click_rate") = Rat(2, 10)
    /\ RateOf(arg[2], "click_rate") = Rat(1, 10)
    /\ RateOf(arg[3], "click_rate") = Rat(1, 10)
    /\ Succeeded
    /\ result.trends["creatives"].campaigns_analyzed = 3
    /\ result.trends["creatives"].avg_open_rate = Rat(2, 15)
    /\ result.trends["creatives"].avg_click_rate = Rat(2, 15)

BelowPercent(rate, percent) == rate.n * 100 < percent * rate.d
AbovePercent(rate, percent) == rate.n * 100 > percent * rate.d

\* the suggestions of the six rules, in the order of their declaration
RuleMessages ==
    <<SubjectLine, CallToAction, EmailDesign, SendTime, Segmentation,
      StrongPerformance>>

\* which of the six rules the metrics match, each judged on its own
RuleMatches(metrics) ==
    LET open_rate == Get(metrics, "open_rate", Zero)
        click_rate == Get(metrics, "click_rate", Zero)
        cto_rate == Get(metrics, "click_to_open_rate", Zero)
    IN  <<BelowPercent(open_rate, 20),
          BelowPercent(click_rate, 8),
          BelowPercent(cto_rate, 30),
          AbovePercent(open_rate, 25) /\ BelowPercent(click_rate, 10),
          BelowPercent(open_rate, 22),
          AbovePercent(open_rate, 30) /\ AbovePercent(click_rate, 12)>>

\* the rule a suggestion belongs to (0 for the default message)
RuleOf(message) ==
    IF \E k \in 1 .. 6 : RuleMessages[k] = message
    THEN CHOOSE k \in 1 .. 6 : RuleMessages[k] = message
    ELSE 0

\* C12: suggest_optimization judges six rules independently and returns the
\* suggestions of exactly the rules that match, in declaration order, each
\* at most once; it returns the single default message exactly when no rule
\* matches, and never an empty list.
C12_SuggestionsOfMatchingRules ==
    Returned("suggest_optimization") =>
        LET matches == RuleMatches(arg.metrics)
            none == \A k \in 1 .. 6 : ~matches[k]
        IN  /\ Len(result) >= 1
            /\ \A k \in 1 .. 6 :
                   matches[k] <=> \E i \in 1 .. Len(result) :
                                      result[i] = RuleMessages[k]
            /\ \A i, j \in 1 .. Len(result) :
                   i < j => RuleOf(result[i]) < RuleOf(result[j])
            /\ none <=> result = <<WithinNormalRanges>>
            /\ ~none => \A i \in 1 .. Len(result) : RuleOf(result[i]) # 0

\* open rate 0.26 with click rate 0.05 and no click-to-open rate: the rules
\* of the call to action, the design and the send time speak together
C12_Witness ==
    /\ Returned("suggest_optimization")
    /\ arg.metrics = [open_rate |-> Rat(26, 100), click_rate |-> Rat(5, 100)]
    /\ result = <<CallToAction, EmailDesign, SendTime>>

\* the two metrics inputs of the examples
LowExample ==
    [open_rate |-> Rat(15, 100), click_rate |-> Rat(5, 100),
     click_to_open_rate |-> Rat(20, 100)]

StrongExample == [open_rate |-> Rat(35, 100), click_rate |-> Rat(15, 100)]

\* C13 as stated: open_rate 0.15, click_rate 0.05, click_to_open_rate 0.20
\* gives the messages of rules 1, 2, 3 and 5 in that order; open_rate 0.35,
\* click_rate 0.15 gives only the message of rule 6.
C13_ExamplesAsStated ==
    Returned("suggest_optimization") =>
        /\ arg.metrics = LowExample =>
               result = <<SubjectLine, CallToAction, EmailDesign, Segmentation>>
        /\ arg.metrics = StrongExample => result = <<StrongPerformance>>

\* C13, amended: the first example gives the messages of rules 1, 2, 3 and 5
\* in that order.  The second example, which gives no click_to_open_rate,
\* has it read as 0 and so gives the messages of rules 3 and 6; with the
\* click_to_open_rate its two rates imply (0.15 / 0.35) it gives only the
\* message of rule 6.
C13_ExamplesWithClickToOpen ==
    Returned("suggest_optimization") =>
        /\ arg.metrics = LowExample =>
               result = <<SubjectLine, CallToAction, EmailDesign, Segmentation>>
        /\ arg.metrics = StrongExample =>
               result = <<EmailDesign, StrongPerformance>>
        /\ arg.metrics = [open_rate |-> Rat(35, 100),
                          click_rate |-> Rat(15, 100),
                          click_to_open_rate |-> Rat(3, 7)] =>
               result = <<StrongPerformance>>

\* the second example has been answered, and the answer has two messages
C13_Witness ==
    /\ Returned("suggest_optimization")
    /\ arg.metrics = StrongExample
    /\ Len(result) = 2

(***************************************************************************)
(* The four components together (checked under Spec).                      *)
(***************************************************************************)
\* a number the arithmetic of the program can produce
IsNumber(x) == DOMAIN x = {"n", "d"} /\ x.d > 0

\* C14: calculate_metrics, compare_to_benchmarks, identify_trends and
\* suggest_optimization never end in an error: for non-negative counts,
\* rates, and histories of any length and grouping (sent = 0, opens = 0,
\* records missing keys, groups of size 2 or of odd size) each returns a
\* value, and no division by zero occurs: both halves of every analysed
\* persona group are non-empty.
C14_ComponentsNeverFail ==
    /\ pc \in {"called", "returned"}
    /\ Returned("calculate_metrics") =>
           /\ "raised" \notin DOMAIN result
           /\ \A key \in {"open_rate", "click_rate", "click_to_open_rate",
                          "bounce_rate", "unsubscribe_rate",
                          "engagement_score"} :
                  key \in DOMAIN result /\ IsNumber(result[key])
    /\ Returned("compare_to_benchmarks") =>
           /\ "raised" \notin DOMAIN result
           /\ \A metric \in BenchmarkedMetrics :
                  IsNumber(result.performance[metric].difference_percent)
    /\ Returned("identify_trends") =>
           /\ "raised" \notin DOMAIN result
           /\ Succeeded =>
                  \A persona \in DOMAIN result.trends :
                      LET N == Len(RecordsOf(arg, persona))
                      IN  /\ N \div 2 >= 1
                          /\ N - (N \div 2) >= 1
                          /\ IsNumber(result.trends[persona].open_rate_change)
    /\ Returned("suggest_optimization") =>
           /\ Len(result) >= 1
           /\ \A i \in 1 .. Len(result) :
                  result[i] \in {SubjectLine, CallToAction, EmailDesign,
                                 SendTime, Segmentation, StrongPerformance,
                                 WithinNormalRanges}

\* a history with a group of three and a record without a persona, one of
\* the records without rates: the group of three is split 1 + 2
C14_Witness ==
    /\ Returned("identify_trends")
    /\ Len(arg) = 4
    /\ Len(RecordsOf(arg, "founders")) = 3
    /\ \E i \in 1 .. 4 : "persona" \notin DOMAIN arg[i]
    /\ \E i \in 1 .. 4 : "open_rate" \notin DOMAIN arg[i]
    /\ Succeeded
    /\ DOMAIN result.trends = {"founders"}

(***************************************************************************)
(* Insights (checked under SpecInsights).                                  *)
(***************************************************************************)
\* the answer to the first request is an error, or cannot be read as a
\* JSON object
FirstAnswerFails == service[1].kind # "object"

\* C15: when the request of generate_performance_insights fails or its
\* answer cannot be parsed, the failure reaches the caller: one request has
\* been sent and no more, and nothing is returned.
C15_FailurePropagatesAfterOneCall ==
    (op = "generate_performance_insights" /\ pc # "called") =>
        /\ external_calls = 1
        /\ FirstAnswerFails =>
               /\ pc = "raised"
               /\ DOMAIN result = {"raised"}
               /\ result.raised \in {"APIError", "TypeError", "JSONDecodeError"}
        /\ ~FirstAnswerFails => pc = "returned"

\* the first answer is not JSON, the second would have been what was asked
\* for: the call has raised after one request
C15_Witness ==
    /\ op = "generate_performance_insights"
    /\ pc = "raised"
    /\ service[1] = NotJson
    /\ service[2] = AskedForAnswer
    /\ result = [raised |-> "JSONDecodeError"]
    /\ external_calls = 1

\* the keys the aggregator sets itself
OwnKeys == {"generated_at", "campaign", "analyzed_segments"}

\* the payload carries the three keys as the aggregator sets them, and every
\* other key of the response as the response gave it
AggregatedOver(response, title, segments, payload) ==
    /\ DOMAIN response \cup OwnKeys \subseteq DOMAIN payload
    /\ \E t \in 0 .. MaxClock : payload["generated_at"] = JStr(isoformat(t))
    /\ payload["campaign"] = JStr(title)
    /\ payload["analyzed_segments"] = JInt(segments)
    /\ \A key \in DOMAIN response \ OwnKeys : payload[key] = response[key]

\* C16: when the insight step succeeds, the payload is the mapping the
\* service answered, with generated_at, campaign (the title of the context,
\* 'Unknown' when it has none) and analyzed_segments (the number of
\* performance records) set by the aggregator over any such keys of the
\* answer, plus a '<persona>_suggestions' entry for every persona of the
\* performance results that holds suggest_optimization of its record.
C16_PayloadOfInsightStep ==
    /\ (op = "generate_performance_insights" /\ pc = "returned") =>
           /\ AggregatedOver(service[1].object,
                             Get(arg.campaign_context, "title", "Unknown"),
                             Len(arg.performance_data), result)
           /\ DOMAIN result = DOMAIN service[1].object \cup OwnKeys
    /\ (op = "_generate_insights" /\ pc = "returned") =>
           LET items == arg.performance_results.by_persona
               SuggestionKeys ==
                   { items[i].persona \o "_suggestions" : i \in 1 .. Len(items) }
           IN  /\ AggregatedOver(service[1].object,
                                 arg.content_results.blog.title,
                                 Len(items), result)
               /\ DOMAIN result =
                      DOMAIN service[1].object \cup OwnKeys \cup SuggestionKeys
               /\ \A i \in 1 .. Len(items) :
                      result[items[i].persona \o "_suggestions"] =
                          JList(suggest_optimization(
                                    items[i].perf,
                                    CampaignContext(arg.content_results)))

\* the answer held the three keys of the aggregator with other values; the
\* step has returned for two personas
C16_Witness ==
    /\ op = "_generate_insights"
    /\ pc = "returned"
    /\ service[1] = OwnKeysAnswer
    /\ Len(arg.performance_results.by_persona) = 2
    /\ result["campaign"] = JStr("AI in Marketing")
    /\ result["analyzed_segments"] = JInt(2)
    /\ result["creatives_suggestions"] = JList(<<StrongPerformance>>)
    /\ Len(db.performance_insights) = 2

(***************************************************************************)
(* compare_to_benchmarks, continued (checked under SpecBenchmarks).        *)
(***************************************************************************)
\* C17: for each benchmarked metric, difference = actual - benchmark and
\* difference_percent = difference / benchmark * 100; a metric the input
\* lacks counts as actual = 0, hence status 'below' and difference_percent
\* -100; the sign of difference agrees with the status.
C17_DifferenceAndPercent ==
    Returned("compare_to_benchmarks") =>
        \A metric \in BenchmarkedMetrics :
            LET p == result.performance[metric]
                actual == ActualOf(arg, metric)
                b == BenchmarkPermille(metric)
                diff == p.difference
                percent == p.difference_percent
            IN  /\ p.actual = actual
                /\ diff.d > 0 /\ percent.d > 0
                /\ diff.n * 1000 * actual.d
                       = (actual.n * 1000 - b * actual.d) * diff.d
                /\ percent.n * b * diff.d = diff.n * 1000 * 100 * percent.d
                /\ metric \notin DOMAIN arg =>
                       /\ p.actual = Zero
                       /\ p.status = "below"
                       /\ percent = FromInt(-100)
                /\ p.status = "above" <=> diff.n > 0
                /\ p.status = "below" <=> diff.n < 0
                /\ p.status = "at" <=> diff.n = 0

\* open_rate 0.22 is 0.01 above its benchmark, and the click_rate the input
\* lacks is 100 percent below its benchmark
C17_Witness ==
    /\ Returned("compare_to_benchmarks")
    /\ "click_rate" \notin DOMAIN arg
    /\ "open_rate" \in DOMAIN arg /\ arg["open_rate"] = Rat(22, 100)
    /\ result.performance["open_rate"].difference = Rat(1, 100)
    /\ result.performance["open_rate"].difference_percent = Rat(100, 21)
    /\ result.performance["click_rate"].difference = Rat(-1, 10)
    /\ result.performance["click_rate"].difference_percent = FromInt(-100)

(***************************************************************************)
(* One call after another (checked under SpecSequence).                    *)
(***************************************************************************)
\* a step in which the operation answers its call
Answering(operation) ==
    pc = "called" /\ op = operation /\ pc' = "returned"

\* the earlier calls of the operation in flight with the argument in flight
EarlierSameCalls ==
    { i \in 1 .. Len(log) : log[i].op = op /\ log[i].arg = arg }

\* C18: compare_to_benchmarks leaves its input unchanged and echoes it under
\* 'metrics'; 'benchmarks' is open_rate 0.21, click_rate 0.10,
\* unsubscribe_rate 0.005 on every call, whatever calls came before and
\* whatever the caller did to an earlier result; 'performance' has exactly
\* these three keys.
C18_FreshBenchmarksEveryCall ==
    [][Answering("compare_to_benchmarks") =>
          /\ arg' = arg
          /\ result'.metrics = arg
          /\ DOMAIN result'.benchmarks = BenchmarkedMetrics
          /\ \A metric \in BenchmarkedMetrics :
                 result'.benchmarks[metric].n * 1000
                     = BenchmarkPermille(metric) * result'.benchmarks[metric].d
          /\ DOMAIN result'.performance = BenchmarkedMetrics]_vars

\* the caller set the open_rate benchmark of the first comparison to 0.50,
\* and the second comparison has answered with 0.21
C18_Witness ==
    /\ Returned("compare_to_benchmarks")
    /\ Len(log) >= 1
    /\ log[Len(log)].op = "compare_to_benchmarks"
    /\ log[Len(log)].held.benchmarks["open_rate"] = Rat(50, 100)
    /\ result.benchmarks["open_rate"] = Rat(21, 100)
    /\ result.metrics = arg

\* the last call returned what every earlier call of calculate_metrics on
\* the same input returned
SameMetricsAsBefore ==
    Returned("calculate_metrics") =>
        \A i \in EarlierSameCalls : log[i].returned = result

PureOperations ==
    {"compare_to_benchmarks", "identify_trends", "suggest_optimization"}

\* no step of the three operations changes the argument, the store or the
\* requests sent to the service
NothingModified ==
    (\E operation \in PureOperations : Answering(operation)) =>
        /\ arg' = arg
        /\ db' = db
        /\ external_calls' = external_calls
        /\ log' = log

\* the last call returned what every earlier call of the same operation on
\* the same argument returned
SameResultAsBefore ==
    (pc = "returned" /\ op \in PureOperations) =>
        \A i \in EarlierSameCalls : log[i].returned = result

\* a result without the time of the analysis
WithoutAnalyzedAt(r) == [key \in DOMAIN r \ {"analyzed_at"} |-> r[key]]

\* as SameResultAsBefore, but for the time at which identify_trends says it
\* analysed
SameResultButForTime ==
    /\ (Returned("compare_to_benchmarks") \/ Returned("suggest_optimization"))
           => \A i \in EarlierSameCalls : log[i].returned = result
    /\ Returned("identify_trends") =>
           \A i \in EarlierSameCalls :
               WithoutAnalyzedAt(log[i].returned) = WithoutAnalyzedAt(result)

\* C20 as stated: compare_to_benchmarks, identify_trends and
\* suggest_optimization are pure functions of their arguments: two calls with
\* equal arguments return equal results, whatever was called before or in
\* between, and no call modifies its arguments or shared state.
C20_EqualArgumentsEqualResults ==
    /\ []SameResultAsBefore
    /\ [][NothingModified]_vars

\* C20, amended: two calls with equal arguments return equal results, except
\* that a successful identify_trends stamps its result with the time of the
\* call (analyzed_at), which differs between calls made at different times;
\* no call modifies its arguments or shared state.
C20_EqualResultsButForTime ==
    /\ []SameResultButForTime
    /\ [][NothingModified]_vars

\* identify_trends has answered twice on the same history, at two times
C20_Witness ==
    /\ Returned("identify_trends")
    /\ Succeeded
    /\ \E i \in EarlierSameCalls :
           /\ log[i].returned.analyzed_at # result.analyzed_at
           /\ log[i].returned.trends = result.trends

(***************************************************************************)
(* suggest_optimization, continued (checked under SpecSuggest).            *)
(***************************************************************************)
\* the list that came back holds the message
Says(message) == \E i \in 1 .. Len(result) : result[i] = message

\* C28: suggest_optimization returns between 1 and 4 messages; the subject
\* line rule (1) never speaks without the segmentation rule (5); the strong
\* performance rule (6) never speaks together with rule 1, 2, 4 or 5; rules
\* 1 and 4 never speak together; the default message never comes with the
\* message of a rule.
C28_RulesThatExcludeEachOther ==
    Returned("suggest_optimization") =>
        /\ Len(result) >= 1 /\ Len(result) <= 4
        /\ Says(SubjectLine) => Says(Segmentation)
        /\ Says(StrongPerformance) =>
               /\ ~Says(SubjectLine)
               /\ ~Says(CallToAction)
               /\ ~Says(SendTime)
               /\ ~Says(Segmentation)
        /\ ~(Says(SubjectLine) /\ Says(SendTime))
        /\ Says(WithinNormalRanges) => Len(result) = 1

\* four messages at once: open rate 0.15, click rate 0.05 and
\* click-to-open rate 0.20
C28_Witness ==
    /\ Returned("suggest_optimization")
    /\ Len(result) = 4
    /\ Says(SubjectLine) /\ Says(Segmentation)
    /\ ~Says(SendTime) /\ ~Says(StrongPerformance)

(***************************************************************************)
(* identify_trends, continued (checked under SpecTrends).                  *)
(***************************************************************************)
\* the records that name no persona, or name 'unknown'
Unnamed(history) ==
    SelectSeq(history,
              LAMBDA data : "persona" \notin DOMAIN data
                                \/ data["persona"] = "unknown")

RECURSIVE SumGiven(_, _, _, _)
\* the sum of the rate over those records at the indices lo .. hi - 1 that
\* give the rate
SumGiven(records, key, lo, hi) ==
    IF lo >= hi THEN Zero
    ELSE IF key \in DOMAIN At(records, lo)
    THEN RAdd(At(records, lo)[key], SumGiven(records, key, lo + 1, hi))
    ELSE SumGiven(records, key, lo + 1, hi)

\* a history with a record that lacks the persona or a rate
Malformed(history) ==
    \E i \in 1 .. Len(history) :
        {"persona", "open_rate", "click_rate"} \ DOMAIN history[i] # {}

\* C29: records without a persona key are all grouped under 'unknown', which
\* is reported in trends when there are at least 2 of them; a record without
\* open_rate or click_rate adds 0 to the averages and to the half means; no
\* such record makes identify_trends fail.
C29_MalformedRecordsTolerated ==
    (Returned("identify_trends") /\ Malformed(arg)) =>
        /\ "raised" \notin DOMAIN result
        /\ Len(arg) >= 2 => Succeeded
        /\ Succeeded =>
               /\ "unknown" \in DOMAIN result.trends <=> Len(Unnamed(arg)) >= 2
               /\ Len(Unnamed(arg)) >= 2 =>
                      result.trends["unknown"].campaigns_analyzed
                          = Len(Unnamed(arg))
               /\ \A persona \in DOMAIN result.trends :
                      LET records ==
                              IF persona = "unknown" THEN Unnamed(arg)
                              ELSE SelectSeq(arg,
                                       LAMBDA data :
                                           /\ "persona" \in DOMAIN data
                                           /\ data["persona"] = persona)
                          N == Len(records)
                          mid == N \div 2
                          trend == result.trends[persona]
                          Given(key, lo, hi) == SumGiven(records, key, lo, hi)
                      IN  /\ RMul(trend.avg_open_rate, FromInt(N))
                                 = Given("open_rate", 0, N)
                          /\ RMul(trend.avg_click_rate, FromInt(N))
                                 = Given("click_rate", 0, N)
                          /\ trend.open_rate_change
                                 = RSub(RDiv(Given("open_rate", mid, N),
                                             FromInt(N - mid)),
                                        RDiv(Given("open_rate", 0, mid),
                                             FromInt(mid)))
                          /\ trend.click_rate_change
                                 = RSub(RDiv(Given("click_rate", mid, N),
                                             FromInt(N - mid)),
                                        RDiv(Given("click_rate", 0, mid),
                                             FromInt(mid)))

\* two records without persona and two of founders, one of them without
\* rates: 'unknown' and 'founders' are both reported
C29_Witness ==
    /\ Returned("identify_trends")
    /\ Len(arg) = 4
    /\ Len(Unnamed(arg)) = 2
    /\ \E i \in 1 .. 4 : arg[i] = [persona |-> "founders"]
    /\ Succeeded
    /\ DOMAIN result.trends = {"unknown", "founders"}
    /\ result.trends["unknown"].avg_open_rate = Rat(3, 10)

(***************************************************************************)
(* save_contact (checked under SpecContacts).                              *)
(***************************************************************************)
\* the calls of save_contact that have returned, oldest first
SavedSoFar ==
    [i \in 1 .. Len(log) |-> [arg |-> log[i].arg, returned |-> log[i].returned]]
    \o (IF Returned("save_contact")
        THEN <<[arg |-> arg, returned |-> result]>> ELSE <<>>)

\* the position of the most recent call for the email, 0 when there is none
LatestFor(email) ==
    IF \E k \in 1 .. Len(SavedSoFar) : SavedSoFar[k].arg.email = email
    THEN CHOOSE k \in 1 .. Len(SavedSoFar) :
             /\ SavedSoFar[k].arg.email = email
             /\ \A j \in k + 1 .. Len(SavedSoFar) :
                    SavedSoFar[j].arg.email # email
    ELSE 0

\* C30: save_contact is an upsert keyed by email: after any sequence of
\* calls the table holds at most one row per email, the row carries
\* first_name, last_name, persona, company and hubspot_contact_id of the
\* most recent call for its email, every call for one email returns the
\* same id, and rows of other emails stay as they were.
C30_SaveContactIsUpsert ==
    LET rows == db.contacts
    IN  /\ \A i, j \in 1 .. Len(rows) :
               rows[i].email = rows[j].email => i = j
        /\ \A k \in 1 .. Len(SavedSoFar) :
               \E i \in 1 .. Len(rows) :
                   /\ rows[i].email = SavedSoFar[k].arg.email
                   /\ rows[i].id = SavedSoFar[k].returned
        /\ \A i \in 1 .. Len(rows) :
               LET latest == LatestFor(rows[i].email)
               IN  /\ latest # 0
                   /\ rows[i].first_name = SavedSoFar[latest].arg.first_name
                   /\ rows[i].last_name = SavedSoFar[latest].arg.last_name
                   /\ rows[i].persona = SavedSoFar[latest].arg.persona
                   /\ rows[i].company = SavedSoFar[latest].arg.company
                   /\ rows[i].hubspot_contact_id
                          = SavedSoFar[latest].arg.hubspot_contact_id
        /\ \A k, m \in 1 .. Len(SavedSoFar) :
               SavedSoFar[k].arg.email = SavedSoFar[m].arg.email
                   => SavedSoFar[k].returned = SavedSoFar[m].returned

\* one contact saved, another saved, and the first saved again under another
\* name: two rows, the first with the new name and its old id
C30_Witness ==
    /\ Returned("save_contact")
    /\ Len(log) = 2
    /\ log[1].arg.email = arg.email
    /\ log[2].arg.email # arg.email
    /\ log[1].arg.first_name = "Sarah"
    /\ arg.first_name = "David"
    /\ Len(db.contacts) = 2
    /\ db.contacts[1].first_name = "David"
    /\ result = 1

(***************************************************************************)
(* Claims about the pipeline.                                              *)
(***************************************************************************)
\* a run of the pipeline is under way or has ended
InRun == op \in {"run_full_pipeline", "run_pipeline"}

\* the results dict of the run, once it has one
HasResults ==
    /\ InRun
    /\ \/ pc \in {"distribution", "performance", "insights", "ran"}
       \/ pc = "returned" /\ op = "run_full_pipeline"
       \/ pc = "returned" /\ op = "run_pipeline" /\ "run" \in DOMAIN result

RunResults ==
    IF op = "run_pipeline" /\ pc = "returned" THEN result.run ELSE result

\* the results hold the result of the step
Has(key) == HasResults /\ key \in DOMAIN RunResults

\* the records the collection step hands on, one per persona
PerformanceRecords == RunResults.performance.by_persona

\* C21: every per-persona performance record the run hands to
\* generate_performance_insights and suggest_optimization carries the
\* engagement_score that calculate_metrics computes from the record's raw
\* counters.
C21_RecordsCarryEngagementScore ==
    Has("performance") =>
        \A i \in 1 .. Len(PerformanceRecords) :
            LET perf == PerformanceRecords[i].perf
                derived == calculate_metrics([sent |-> perf.contacts_sent,
                                              opens |-> perf.opens,
                                              clicks |-> perf.clicks,
                                              unsubscribes |->
                                                  perf.unsubscribes])
            IN  /\ "engagement_score" \in DOMAIN perf
                /\ perf.engagement_score = derived.engagement_score

\* C22: every performance row the collection step persists satisfies the
\* derived-rate definitions: open_rate = opens/contacts_sent, click_rate =
\* clicks/contacts_sent, unsubscribe_rate = unsubscribes/contacts_sent, and
\* 0 when contacts_sent = 0.
C22_PersistedRatesAreQuotients ==
    InRun =>
        \A i \in 1 .. Len(db.campaign_performance) :
            LET row == db.campaign_performance[i]
                RateIs(rate, num) ==
                    IF row.contacts_sent > 0
                    THEN IsQuotient(rate, num, row.contacts_sent)
                    ELSE rate = Zero
            IN  /\ RateIs(row.open_rate, row.opens)
                /\ RateIs(row.click_rate, row.clicks)
                /\ RateIs(row.unsubscribe_rate, row.unsubscribes)

\* run_full_pipeline has returned its results
RunEnded ==
    /\ HasResults
    /\ pc \in {"ran", "returned"}

\* the store when the run began
StartDb == IF log = <<>> THEN EmptyDb ELSE log[Len(log)].held

StepKeys == <<"content", "distribution", "performance", "insights">>

\* the results hold the results of the first n steps and of no later step
HoldsFirst(results, n) ==
    \A i \in 1 .. Len(StepKeys) : (StepKeys[i] \in DOMAIN results) <=> i <= n

\* the results the run returns are well-formed
C23_ResultsAtReturn ==
    RunEnded =>
        /\ RunResults.status \in {"completed", "error"}
        /\ \E n \in 0 .. Len(StepKeys) : HoldsFirst(RunResults, n)
        /\ RunResults.status = "completed" =>
               /\ HoldsFirst(RunResults, Len(StepKeys))
               /\ "completed_at" \in DOMAIN RunResults
        /\ RunResults.status = "error" =>
               /\ "error" \in DOMAIN RunResults
               /\ RunResults.error # ""

\* the run goes from step to step in the fixed order, a step is entered with
\* the results of exactly the steps before it, and the run never raises
C23_StepsInOrder ==
    (InRun /\ pc' # pc) =>
        /\ pc' # "raised"
        /\ pc = "called" => pc' \in {"distribution", "ran", "returned"}
        /\ pc = "distribution" => pc' \in {"performance", "ran", "returned"}
        /\ pc = "performance" => pc' \in {"insights", "ran", "returned"}
        /\ pc = "insights" => pc' \in {"ran", "returned"}
        /\ pc' = "distribution" =>
               HoldsFirst(result', 1) /\ result'.status = "in_progress"
        /\ pc' = "performance" =>
               HoldsFirst(result', 2) /\ result'.status = "in_progress"
        /\ pc' = "insights" =>
               HoldsFirst(result', 3) /\ result'.status = "in_progress"

\* C23: run_full_pipeline runs content, distribution, performance, insights
\* in this order and always returns, with status 'completed' or 'error' and
\* never 'in_progress'; the result of a step is present only if every
\* earlier step succeeded; 'completed' implies all four results and
\* completed_at; 'error' carries the error text.
C23_OrderedStepsAndFinalStatus ==
    /\ []C23_ResultsAtReturn
    /\ [][C23_StepsInOrder]_vars

\* a second run has returned 'completed' and the run before it 'error'
C23_Witness ==
    /\ Returned("run_full_pipeline")
    /\ result.status = "completed"
    /\ Len(log) = 1
    /\ log[1].op = "run_full_pipeline"
    /\ log[1].returned.status = "error"

\* the request of the run to the narrative service failed
NarrativeCallFailed ==
    /\ RunEnded
    /\ "performance" \in DOMAIN RunResults
    /\ service[external_calls].kind = "api_error"

\* the rows of the table are those of before and n more
Grown(table, n) ==
    /\ Len(db[table]) = Len(StartDb[table]) + n
    /\ SubSeq(db[table], 1, Len(StartDb[table])) = StartDb[table]

\* C24: if the narrative-generation call fails during run_full_pipeline,
\* the run ends with status 'error', the results hold content, distribution
\* and performance but no insights, no performance_insights row has been
\* written for the run, and the content, newsletter, campaign and
\* campaign_performance rows of the earlier steps remain in the store.
C24_FailedNarrativeCallLeavesEarlierRows ==
    NarrativeCallFailed =>
        /\ RunResults.status = "error"
        /\ HoldsFirst(RunResults, 3)
        /\ Grown("performance_insights", 0)
        /\ Grown("content", 1)
        /\ db.content[Len(db.content)].id = RunResults.content.content_id
        /\ Grown("newsletters", Len(RunResults.content.newsletter_ids))
        /\ Grown("campaigns", Len(RunResults.distribution.campaign_ids))
        /\ Grown("campaign_performance",
                 Len(RunResults.performance.by_persona))

\* a run in test mode whose request failed: three campaigns and three
\* performance rows remain
C24_Witness ==
    /\ NarrativeCallFailed
    /\ op = "run_full_pipeline"
    /\ Len(RunResults.performance.by_persona) = 3
    /\ Len(db.campaign_performance) = Len(StartDb.campaign_performance) + 3

\* the rows the run has added to the table
AddedRows(table) ==
    SubSeq(db[table], Len(StartDb[table]) + 1, Len(db[table]))

\* C25: every performance_insights row written by the insight step has a
\* campaign_id equal to the id of a campaigns row created by the same run
\* for the same persona, so that every performance_insights row refers to
\* a campaigns row after any sequence of runs.
C25_InsightRowsReferToCampaigns ==
    /\ InRun =>
           \A i \in 1 .. Len(db.performance_insights) :
               \E j \in 1 .. Len(db.campaigns) :
                   db.campaigns[j].id = db.performance_insights[i].campaign_id
    /\ (RunEnded /\ "performance" \in DOMAIN RunResults) =>
           LET written == AddedRows("performance_insights")
               campaign_ids == RunResults.distribution.campaign_ids
           IN  \A k \in 1 .. Len(written) :
                   LET persona ==
                           RunResults.content.newsletter_ids[k].persona
                   IN  /\ HasKey(campaign_ids, persona)
                       /\ Lookup(campaign_ids, persona).id
                              = written[k].campaign_id

\* C26: the route answers 'success' only when the run it triggered ended
\* with status 'completed'; a run that ended with status 'error' yields an
\* error response.
C26_SuccessOnlyForCompletedRuns ==
    (Returned("run_pipeline") /\ "run" \in DOMAIN result) =>
        /\ result.body.status = "success" => result.run.status = "completed"
        /\ result.run.status = "error" =>
               /\ result.body.status = "error"
               /\ result.status_code # 200

\* the personas of the entries of an ordered dict, in their order
KeysOf(items) == [i \in 1 .. Len(items) |-> items[i].persona]

\* the personas that have a contact among the contacts, in the order of
\* the segments
PersonasWithContacts(contacts) ==
    SelectSeq(PersonaKeys,
              LAMBDA persona :
                  \E i \in 1 .. Len(contacts) : contacts[i].persona = persona)

\* after the distribution step: one send and one campaign row for each
\* persona that has a contact, and for no other
C27_AfterDistribution ==
    Has("distribution") =>
        LET distribution == RunResults.distribution
            sent_to == PersonasWithContacts(distribution.contacts)
            created == AddedRows("campaigns")
        IN  /\ KeysOf(distribution.campaign_results) = sent_to
            /\ KeysOf(distribution.campaign_ids) = sent_to
            /\ Len(created) = Len(sent_to)
            /\ \A k \in 1 .. Len(sent_to) :
                   /\ created[k].id = distribution.campaign_ids[k].id
                   /\ distribution.campaign_results[k].result.contacts_sent
                          > 0

\* after the collection step: one campaign_performance row for each persona
\* sent to, linked to the campaign row the run created for that persona
C27_AfterCollection ==
    Has("performance") =>
        LET distribution == RunResults.distribution
            sent_to == KeysOf(distribution.campaign_results)
            written == AddedRows("campaign_performance")
        IN  /\ KeysOf(RunResults.performance.by_persona) = sent_to
            /\ Len(written) = Len(sent_to)
            /\ \A k \in 1 .. Len(sent_to) :
                   /\ written[k].persona = sent_to[k]
                   /\ written[k].campaign_id = distribution.campaign_ids[k].id
                   /\ \E j \in 1 .. Len(AddedRows("campaigns")) :
                          AddedRows("campaigns")[j].id
                              = written[k].campaign_id

\* C27: after the distribution step campaign_results and campaign_ids have
\* the same keys, the personas with at least one contact; a persona with no
\* contacts gets no send and no campaign row; the collection step writes
\* exactly one campaign_performance row per persona sent to, linked to that
\* persona's campaign row of this run.
C27_OneCampaignAndOneRowPerPersonaSentTo ==
    C27_AfterDistribution /\ C27_AfterCollection

\* a second run in test mode has collected three rows, linked to campaigns
\* 4, 5 and 6
C27_Witness ==
    /\ Has("performance")
    /\ Len(log) = 1
    /\ Len(db.campaigns) = 6
    /\ Len(AddedRows("campaign_performance")) = 3
    /\ AddedRows("campaign_performance")[1].campaign_id = 4

====
